---- MODULE Spec2Model ----
(***************************************************************************)
(* Software pixel compositor, tile sampling and level text format of the   *)
(* platform game, its mask state and its frame loop: src/src/bitmap/mod.rs, *)
(* src/src/game/tilemap.rs, src/src/game.rs and src/src/main.rs.           *)
(*                                                                         *)
(* Packed colors are 32-bit naturals (alpha<<24 | red<<16 | green<<8 |     *)
(* blue), kept as their four bytes.  A bitmap is a record [width, height,  *)
(* stride, pixels] whose pixels are a sequence; flat index i of the code   *)
(* is element i+1.                                                         *)
(*                                                                         *)
(* Each component has its own specification over the shared variables:     *)
(*   SpecBlend  blend / blend3                                             *)
(*   SpecBlit   draw_on / draw_on_scaled / draw_tile / plot                *)
(*   SpecTri    draw_triangle                                              *)
(*   SpecTriAny draw_triangle, vertices inside and outside the buffer      *)
(*   SpecTile   world_to_tile_index / sample_world_pos / TileMap::draw     *)
(*   SpecFile   store_to_file / from_file                                  *)
(*   SpecGame   Game::tick, input events, reset_game: masks, inventory,    *)
(*              save points, player drawing                                *)
(*   SpecGameTicks  Game::tick alone, called again and again               *)
(*   SpecFrame  the frame loop: fences, upload buffers, GPU copies         *)
(*   SpecScaled draw_on_scaled / draw_on_scaled_player / draw_background   *)
(*   SpecAudio  the sfx channel and the audio stream callback              *)
(***************************************************************************)
EXTENDS Integers, Sequences, FiniteSets, TLC

VARIABLES
    blendIn,    \* arguments (a, b, alpha) of the blend call
    blendOut,   \* result of the blend call, or "none"
    src,        \* source bitmap of a draw call
    target,     \* destination bitmap before the draw call
    at,         \* <<x, y>> position argument of the draw call
    drawn,      \* effect of the draw call, or [op |-> "none"]
    tri,        \* triangle rasterizer harness state
    tileMap,    \* the TileMap (tile_size, width, height, tiles)
    sampled,    \* the last sample_world_pos call and its result
    fileIo,     \* level text store/load state
    game,       \* game state: color mask, inventory, player, last player draw
    frames,     \* frame loop state: upload buffers, fences, GPU copies
    audio       \* sfx channel between the game thread and the audio callback

vars == <<blendIn, blendOut, src, target, at, drawn, tri, tileMap, sampled, fileIo,
          game, frames, audio>>

blendVars == <<blendIn, blendOut>>
blitVars == <<src, target, at, drawn>>
triVars == <<tri>>
tileVars == <<tileMap, sampled>>
fileVars == <<fileIo>>
gameVars == <<game>>
frameVars == <<frames>>
audioVars == <<audio>>

----------------------------------------------------------------------------
(* u32 / i32 helpers *)

Pow2(n) == 2 ^ n

\* a >> n on a non-negative value, and arithmetic >> on an i32 (floor)
Shr(a, n) == a \div Pow2(n)

RECURSIVE BitAnd(_, _)
BitAnd(a, b) ==
    IF a = 0 \/ b = 0 THEN 0
    ELSE (a % 2) * (b % 2) + 2 * BitAnd(a \div 2, b \div 2)

BitOr(a, b) == a + b - BitAnd(a, b)

Min(a, b) == IF a < b THEN a ELSE b
Max(a, b) == IF a > b THEN a ELSE b
Abs(a) == IF a < 0 THEN -a ELSE a
Clamp(v, lo, hi) == IF v < lo THEN lo ELSE IF v > hi THEN hi ELSE v

\* f32 -> i32 `as` cast of the quotient n/d: truncation toward zero
TruncDiv(n, d) ==
    IF (n >= 0) = (d > 0) THEN Abs(n) \div Abs(d) ELSE -(Abs(n) \div Abs(d))

\* the value of the variables a specification does not use
Idle == "idle"

\* no call made yet
NoCall == [op |-> "none"]

----------------------------------------------------------------------------
(* Packed colors.  A u32 color 0xAARRGGBB is the tuple of its four bytes   *)
(* <<alpha, red, green, blue>>; shifts and masks of the code select or     *)
(* combine bytes.                                                          *)

Pack(a, r, g, b) == <<a, r, g, b>>

AlphaOf(c) == c[1]      \* (c >> 24) & 0xff
RedOf(c) == c[2]        \* (c >> 16) & 0xff
GreenOf(c) == c[3]      \* (c >> 8) & 0xff
BlueOf(c) == c[4]       \* c & 0xff

\* c & 0xffff
Low16(c) == c[3] * 256 + c[4]

\* a & b on packed colors
ColorAnd(a, b) == [i \in 1..4 |-> BitAnd(a[i], b[i])]

\* a | b on packed colors
ColorOr(a, b) == [i \in 1..4 |-> BitOr(a[i], b[i])]

\* c & 0xffffff
Rgb(c) == Pack(0, c[2], c[3], c[4])

\* (c & 0xff000000) != 0
HasAlpha(c) == AlphaOf(c) # 0

\* the packed color of a small number n < 2^16 (brightness table entries)
FromLow16(n) == Pack(0, 0, n \div 256, n % 256)

Zero == Pack(0, 0, 0, 0)

\* ColorChannels
RED == Pack(255, 255, 0, 0)
GREEN == Pack(255, 0, 255, 0)
BLUE == Pack(255, 0, 0, 255)
YELLOW == Pack(255, 255, 255, 0)
BLACK == Pack(255, 0, 0, 0)
WHITE == ColorOr(ColorOr(RED, GREEN), BLUE)

----------------------------------------------------------------------------
(* Color combinators *)

\* one channel of blend / blend3: ((a * (255 - alpha)) + (b * alpha)) >> 8
BlendChannel(ca, cb, alpha) == Shr((ca * (255 - alpha)) + (cb * alpha), 8)

blend(a, b, alpha) ==
    LET red == Clamp(BlendChannel(RedOf(a), RedOf(b), alpha), 0, 255)
        green == Clamp(BlendChannel(GreenOf(a), GreenOf(b), alpha), 0, 255)
        blue == Clamp(BlendChannel(BlueOf(a), BlueOf(b), alpha), 0, 255)
    IN  Pack(255, red, green, blue)

Blend3Swapped(a, b, alpha) ==
    LET red == Clamp(BlendChannel(RedOf(b), RedOf(a), RedOf(alpha)), 0, 255)
        green == Clamp(BlendChannel(GreenOf(b), GreenOf(a), GreenOf(alpha)), 0, 255)
        blue == Clamp(BlendChannel(BlueOf(b), BlueOf(a), BlueOf(alpha)), 0, 255)
    IN  Pack(255, red, green, blue)

blend3(a, b, alpha) ==
    LET red == Clamp(BlendChannel(RedOf(a), RedOf(b), RedOf(alpha)), 0, 255)
        green == Clamp(BlendChannel(GreenOf(a), GreenOf(b), GreenOf(alpha)), 0, 255)
        blue == Clamp(BlendChannel(BlueOf(a), BlueOf(b), BlueOf(alpha)), 0, 255)
    IN  Pack(255, red, green, blue)

\* channel values the samples are built from
ChannelSamples == {0, 1, 128, 255}

\* packed colors given to the combinators: every alpha/red pair, with green
\* and blue following red in two different ways
ColorSamples ==
    {Pack(a, r, g, b) : a \in {0, 255}, r \in ChannelSamples,
                        g \in {0, 200}, b \in {77, 255}}

\* blend factors
FactorSamples == {0, 1, 127, 255}

BlendInit ==
    /\ blendIn \in ColorSamples \X ColorSamples \X FactorSamples
    /\ blendOut = NoCall
    /\ src = Idle /\ target = Idle /\ at = Idle /\ drawn = Idle
    /\ tri = Idle /\ tileMap = Idle /\ sampled = Idle /\ fileIo = Idle
    /\ game = Idle /\ frames = Idle /\ audio = Idle

CallBlend ==
    /\ blendOut = NoCall
    /\ blendOut' = [op |-> "blend", value |-> blend(blendIn[1], blendIn[2], blendIn[3])]
    /\ UNCHANGED <<blendIn, blitVars, triVars, tileVars, fileVars, gameVars, frameVars, audioVars>>

\* blend3 with a packed factor: one factor per channel, any top byte
CallBlend3 ==
    /\ blendOut = NoCall
    /\ \E top \in {0, 255}, fr \in FactorSamples, fg \in FactorSamples,
          fb \in FactorSamples :
          LET alpha == Pack(top, fr, fg, fb)
          IN  blendOut' = [op |-> "blend3", alpha |-> alpha,
                           value |-> blend3(blendIn[1], blendIn[2], alpha)]
    /\ UNCHANGED <<blendIn, blitVars, triVars, tileVars, fileVars, gameVars, frameVars, audioVars>>

BlendNext == CallBlend \/ CallBlend3

SpecBlend == BlendInit /\ [][BlendNext]_vars

\* C3: blend(a, b, 0) has the red, green and blue channels of a and alpha
\* 0xff, and blend(a, b, 255) has those of b and alpha 0xff.
C3_BlendEndpoints ==
    blendOut.op = "blend" =>
        /\ blendIn[3] = 0 => blendOut.value = Pack(255, RedOf(blendIn[1]),
                                  GreenOf(blendIn[1]), BlueOf(blendIn[1]))
        /\ blendIn[3] = 255 => blendOut.value = Pack(255, RedOf(blendIn[2]),
                                  GreenOf(blendIn[2]), BlueOf(blendIn[2]))

\* a color with only the given channel of c (1 red, 2 green, 3 blue)
OnlyChannel(c, n) ==
    Pack(0, IF n = 1 THEN RedOf(c) ELSE 0, IF n = 2 THEN GreenOf(c) ELSE 0,
            IF n = 3 THEN BlueOf(c) ELSE 0)

\* channel n of c
ChannelOf(c, n) == <<RedOf(c), GreenOf(c), BlueOf(c)>>[n]

\* C23: blend3(a, b, f<<16 | f<<8 | f) = blend(a, b, f) for every factor f;
\* in general each output channel of blend3 is that channel of blend applied
\* to the same channel of a and b with that channel of the packed factor,
\* and the output alpha is 0xff.
C23_Blend3IsChannelwiseBlend ==
    blendOut.op = "blend3" =>
        LET a == blendIn[1]
            b == blendIn[2]
            alpha == blendOut.alpha
        IN  /\ AlphaOf(blendOut.value) = 255
            /\ \A n \in 1..3 :
                  ChannelOf(blendOut.value, n) =
                      ChannelOf(blend(OnlyChannel(a, n), OnlyChannel(b, n),
                                      ChannelOf(alpha, n)), n)
            /\ (RedOf(alpha) = GreenOf(alpha) /\ GreenOf(alpha) = BlueOf(alpha)) =>
                  blendOut.value = blend(a, b, RedOf(alpha))

\* C23 witness: blend3 with the uniform factor 127 of two colors that differ
\* in every channel, giving a color that is neither of them
C23_WitnessUniformFactor ==
    /\ blendOut.op = "blend3"
    /\ blendOut.alpha = Pack(0, 127, 127, 127)
    /\ \A n \in 1..3 : ChannelOf(blendIn[1], n) # ChannelOf(blendIn[2], n)
    /\ blendOut.value = blend(blendIn[1], blendIn[2], 127)
    /\ \A n \in 1..3 : /\ ChannelOf(blendOut.value, n) # ChannelOf(blendIn[1], n)
                       /\ ChannelOf(blendOut.value, n) # ChannelOf(blendIn[2], n)

----------------------------------------------------------------------------
(* Bitmap *)

\* Bitmap::new: zero-filled owned buffer, stride = width
new(width, height) ==
    [width |-> width, height |-> height, stride |-> width,
     pixels |-> [i \in 1..(width * height) |-> Zero]]

\* Bitmap::new_borrowed: view of height * stride pixels of caller memory
new_borrowed(memory, width, height, stride) ==
    [width |-> width, height |-> height, stride |-> stride,
     pixels |-> [i \in 1..(height * stride) |-> memory[i]]]

InBacking(bm, index) == index >= 0 /\ index < Len(bm.pixels)

\* An unchecked read (get_unchecked, raw pointer): outside the backing array
\* the value is whatever the build finds there, passed in as ub.
ReadUnchecked(bm, index, ub) ==
    IF InBacking(bm, index) THEN bm.pixels[index + 1] ELSE ub

\* The stores of a draw loop applied in loop order.  W is a set of
\* <<order, flat index, color>>; a store outside the backing array leaves
\* the array as it is (it lands in foreign memory).
ApplyWrites(pixels, W) ==
    [i \in 1..Len(pixels) |->
        LET ws == {w \in W : w[2] = i - 1}
        IN  IF ws = {} THEN pixels[i]
            ELSE (CHOOSE w \in ws : \A v \in ws : v[1] <= w[1])[3]]

load_pixel(bm, x, y) ==
    IF x >= 0 /\ x < bm.width /\ y >= 0 /\ y < bm.height
    THEN bm.pixels[x + y * bm.stride + 1]
    ELSE Zero

PlotByWidth(self, x, y, color) ==
    IF x >= 0 /\ x < self.width /\ y >= 0 /\ y < self.height
    THEN [self EXCEPT !.pixels[x + y * self.width + 1] = color]
    ELSE self

\* Bitmap::plot: the bitmap afterwards
plot(self, x, y, color) ==
    IF x >= 0 /\ x < self.width /\ y >= 0 /\ y < self.height
    THEN [self EXCEPT !.pixels[x + y * self.stride + 1] = color]
    ELSE self

\* The clipping prologue shared by the draw routines: from the footprint
\* size (sw, sh) and the position, the source offset (sx, sy), the target
\* offset (tx, ty) and the clipped loop counts.
ClipNoTargetMin(sw0, sh0, x, y, tgt) ==
    LET sw1 == IF x < 0 THEN sw0 + x ELSE sw0
        sh1 == IF y < 0 THEN sh0 + y ELSE sh0
        tx == IF x < 0 THEN 0 ELSE x
        ty == IF y < 0 THEN 0 ELSE y
    IN  [sx |-> IF x < 0 THEN Abs(x) ELSE 0,
         sy |-> IF y < 0 THEN Abs(y) ELSE 0,
         tx |-> tx, ty |-> ty, sw |-> sw1, sh |-> sh1]

ClipNoSourceOffset(sw0, sh0, x, y, tgt) ==
    LET sw1 == IF x < 0 THEN sw0 + x ELSE sw0
        sh1 == IF y < 0 THEN sh0 + y ELSE sh0
        tx == IF x < 0 THEN 0 ELSE x
        ty == IF y < 0 THEN 0 ELSE y
    IN  [sx |-> 0, sy |-> 0, tx |-> tx, ty |-> ty,
         sw |-> Min(sw1, tgt.width - tx),
         sh |-> Min(sh1, tgt.height - ty)]

Clip(sw0, sh0, x, y, tgt) ==
    LET sw1 == IF x < 0 THEN sw0 + x ELSE sw0
        sh1 == IF y < 0 THEN sh0 + y ELSE sh0
        tx == IF x < 0 THEN 0 ELSE x
        ty == IF y < 0 THEN 0 ELSE y
    IN  [sx |-> IF x < 0 THEN Abs(x) ELSE 0,
         sy |-> IF y < 0 THEN Abs(y) ELSE 0,
         tx |-> tx, ty |-> ty,
         sw |-> Min(sw1, tgt.width - tx),
         sh |-> Min(sh1, tgt.height - ty)]

\* loop iterations <<row, column>> of the nested for loops
Iterations(sh, sw) == {<<r, c>> : r \in 0..(sh - 1), c \in 0..(sw - 1)}

\* the effect of a draw call: the target's pixels afterwards, the flat target
\* indices stored to and the flat source indices loaded from
Effect(op, tgt, stores, loads) ==
    [op |-> op,
     args |-> <<>>,
     pixels |-> ApplyWrites(tgt.pixels, stores),
     writes |-> {w[2] : w \in stores},
     reads |-> loads]

draw_on(self, tgt, x, y, ub) ==
    LET k == Clip(self.width, self.height, x, y, tgt)
        its == Iterations(k.sh, k.sw)
        SrcIndex(it) == (k.sy + it[1]) * self.stride + k.sx + it[2]
        DstIndex(it) == (k.ty + it[1]) * tgt.stride + k.tx + it[2]
        Color(it) == ReadUnchecked(self, SrcIndex(it), ub)
        stores == {<<it[1] * k.sw + it[2], DstIndex(it), Color(it)>> :
                      it \in {i \in its : HasAlpha(Color(i))}}
    IN  Effect("draw_on", tgt, stores, {SrcIndex(it) : it \in its})

\* |scale| < 0.001 for a scale num/den
ScaleNear0(scale) == 1000 * Abs(scale[1]) < scale[2]

ScaleNever(scale) == FALSE

\* scale arguments are f32 values num/den, written <<num, den>>
ScaleLt001(scale) == 1000 * Abs(scale[1]) < scale[2]

\* ((1.0 / (dim as f32 * scale)) * 65535.0) as i32 * dim as i32
FixedStep(dim, scale) == TruncDiv(65535 * scale[2], dim * scale[1]) * dim

\* (dim as f32 * scale).abs() as i32
Footprint(dim, scale) == (dim * Abs(scale[1])) \div scale[2]

draw_on_scaled(self, tgt, x, y, scale_x, scale_y, ub) ==
    IF ScaleLt001(scale_x) \/ ScaleLt001(scale_y)
    THEN Effect("draw_on_scaled", tgt, {}, {})
    ELSE
    LET du == FixedStep(self.width, scale_x)
        dv == FixedStep(self.height, scale_y)
        k == Clip(Footprint(self.width, scale_x), Footprint(self.height, scale_y),
                  x, y, tgt)
        v0 == IF dv < 0 THEN (k.sh - 1) * (-dv) ELSE k.sy * du
        u0 == IF du < 0 THEN (k.sw - 1) * (-du) ELSE k.sx * du
        dstline == k.ty * tgt.width + k.tx
        its == Iterations(k.sh, k.sw)
        SrcIndex(it) ==
            Shr(v0 + it[1] * dv, 16) * self.width + Shr(u0 + it[2] * du, 16)
        DstIndex(it) == dstline + it[1] * tgt.width + it[2]
        Color(it) == ReadUnchecked(self, SrcIndex(it), ub)
        stores == {<<it[1] * k.sw + it[2], DstIndex(it), Color(it)>> :
                      it \in {i \in its : HasAlpha(Color(i))}}
    IN  Effect("draw_on_scaled", tgt, stores, {SrcIndex(it) : it \in its})

LitChannelUnclamped(channel, scale) == Shr(channel * scale, 8)

\* ((channel * scale) >> 8).min(0xff)
LitChannel(channel, scale) == Min(Shr(channel * scale, 8), 255)

\* Every target index is stored to once per call (tx + column < width <=
\* stride), so the previous pixel a gated tile blends over is the target's
\* pixel before the call.
draw_tile(self, tgt, x, y, is_colored, visible_mask, color_mask, aura_low, aura, ub) ==
    LET low_brightness == Low16(load_pixel(aura_low, x + 4, y + 4))
        brightness == Low16(load_pixel(aura, x + 4, y + 4))
        rmask == RedOf(color_mask)
        gmask == GreenOf(color_mask)
        bmask == BlueOf(color_mask)
        mute == Max(low_brightness, IF is_colored THEN 15 ELSE 47)
        r_scale == Max(Shr(brightness * rmask, 8), mute)
        g_scale == Max(Shr(brightness * gmask, 8), mute)
        b_scale == Max(Shr(brightness * bmask, 8), mute)
        k == Clip(self.width, self.height, x, y, tgt)
        its == Iterations(k.sh, k.sw)
        SrcIndex(it) == (k.sy + it[1]) * self.stride + k.sx + it[2]
        DstIndex(it) == (k.ty + it[1]) * tgt.stride + k.tx + it[2]
        Color(it) == ReadUnchecked(self, SrcIndex(it), ub)
        Lit(c) == Pack(0, LitChannel(RedOf(c), r_scale),
                          LitChannel(GreenOf(c), g_scale),
                          LitChannel(BlueOf(c), b_scale))
        Stored(it) ==
            IF is_colored
            THEN blend3(ReadUnchecked(tgt, DstIndex(it), ub), Lit(Color(it)),
                        ColorAnd(color_mask, visible_mask))
            ELSE Lit(Color(it))
        stores == {<<it[1] * k.sw + it[2], DstIndex(it), Stored(it)>> :
                      it \in {i \in its : HasAlpha(Color(i))}}
    IN  Effect("draw_tile", tgt, stores, {SrcIndex(it) : it \in its})

----------------------------------------------------------------------------
(* Draw calls: inputs *)

MaxSrc == 2     \* source bitmaps are up to MaxSrc x MaxSrc
MaxDst == 4     \* target bitmaps are up to MaxDst x MaxDst

\* source pixel (i, j): opaque, and different at every position
SrcColor(i, j) == Pack(255, 16 * (i + 1), 16 * (j + 1), 255)

\* a transparent pixel (alpha byte 0) that still has colour bits
Transparent == Pack(0, 1, 2, 3)

\* owned w x h source, all opaque (hole = 0) or with pixel number hole
\* transparent
SourceBitmap(w, h, hole) ==
    [width |-> w, height |-> h, stride |-> w,
     pixels |-> [n \in 1..(w * h) |->
                    IF n = hole THEN Transparent
                    ELSE SrcColor((n - 1) % w, (n - 1) \div w)]]

SourceSamples ==
    {SourceBitmap(w, h, hole) : w \in 1..MaxSrc, h \in 1..MaxSrc, hole \in {0, 1}}

\* target pixel at flat index n - 1 before the call
Sentinel(n) == Pack(255, 0, n, 7)

\* w x h target: owned (pad = 0) or borrowed with stride = w + pad
TargetBitmap(w, h, pad) ==
    new_borrowed([n \in 1..(h * (w + pad)) |-> Sentinel(n)], w, h, w + pad)

TargetSamples ==
    {TargetBitmap(w, h, pad) : w \in 1..MaxDst, h \in 1..MaxDst, pad \in {0, 1}}

\* positions: from wholly left of / above the target to wholly beyond it
Coordinates == (0 - MaxSrc - 1)..(MaxDst + 1)

ScaleSamples == {<<1, 1>>, <<2, 1>>}

\* what a load outside the source array may find
UbSamples == {Transparent, Pack(255, 9, 9, 9)}

\* radial brightness tables handed to draw_tile
AuraTable(peak) ==
    [width |-> 8, height |-> 8, stride |-> 8,
     pixels |-> [n \in 1..64 |-> ColorOr(BLACK, FromLow16((n * 37) % (peak + 1)))]]

\* (is_colored, visible_mask, color_mask) of the draw_tile calls
TileArgSamples ==
    {<<FALSE, BLACK, BLACK>>, <<FALSE, YELLOW, RED>>, <<FALSE, BLACK, BLUE>>,
     <<TRUE, RED, RED>>, <<TRUE, GREEN, YELLOW>>}

BlitInit ==
    /\ src \in SourceSamples
    /\ target \in TargetSamples
    /\ at \in Coordinates \X Coordinates
    /\ drawn = NoCall
    /\ blendIn = Idle /\ blendOut = Idle
    /\ tri = Idle /\ tileMap = Idle /\ sampled = Idle /\ fileIo = Idle
    /\ game = Idle /\ frames = Idle /\ audio = Idle

CallDrawOn ==
    /\ drawn = NoCall
    /\ \E ub \in UbSamples :
          drawn' = draw_on(src, target, at[1], at[2], ub)
    /\ UNCHANGED <<src, target, at, blendVars, triVars, tileVars, fileVars, gameVars, frameVars, audioVars>>

CallDrawOnScaled ==
    /\ drawn = NoCall
    /\ \E scale_x \in ScaleSamples, scale_y \in ScaleSamples, ub \in UbSamples :
          drawn' = [draw_on_scaled(src, target, at[1], at[2], scale_x, scale_y, ub)
                        EXCEPT !.args = <<scale_x, scale_y>>]
    /\ UNCHANGED <<src, target, at, blendVars, triVars, tileVars, fileVars, gameVars, frameVars, audioVars>>

CallDrawTile ==
    /\ drawn = NoCall
    /\ \E a \in TileArgSamples, ub \in UbSamples :
          drawn' = [draw_tile(src, target, at[1], at[2], a[1], a[2], a[3],
                              AuraTable(150), AuraTable(384), ub)
                        EXCEPT !.args = a]
    /\ UNCHANGED <<src, target, at, blendVars, triVars, tileVars, fileVars, gameVars, frameVars, audioVars>>

\* plot(x, y, color) followed by load_pixel(x, y)
CallPlot ==
    /\ drawn = NoCall
    /\ \E color \in {Zero, Pack(255, 1, 2, 3)} :
          LET after == plot(target, at[1], at[2], color)
          IN  drawn' = [op |-> "plot", args |-> <<color>>, pixels |-> after.pixels,
                        writes |-> {i \in 0..(Len(after.pixels) - 1) :
                                       after.pixels[i + 1] # target.pixels[i + 1]},
                        reads |-> {},
                        sample |-> load_pixel(after, at[1], at[2])]
    /\ UNCHANGED <<src, target, at, blendVars, triVars, tileVars, fileVars, gameVars, frameVars, audioVars>>

BlitNext == CallDrawOn \/ CallDrawOnScaled \/ CallDrawTile \/ CallPlot

SpecBlit == BlitInit /\ [][BlitNext]_vars

\* pixel (p, q) of a pixel array laid out with the given stride
PixelAt(pixels, stride, p, q) == pixels[p + q * stride + 1]

\* flat index i of bitmap bm addresses a pixel (p, q) inside its bounds
AddressesPixel(bm, i) ==
    /\ i >= 0 /\ i < Len(bm.pixels)
    /\ i % bm.stride < bm.width
    /\ i \div bm.stride < bm.height

\* C1: draw_on and draw_tile store only to target pixels (p, q) with
\* 0 <= p < width, 0 <= q < height, at flat index p + q * stride inside the
\* backing array, and load only pixels inside the source, at every position.
C1_BlitStaysInBounds ==
    drawn.op \in {"draw_on", "draw_tile"} =>
        /\ \A i \in drawn.writes : AddressesPixel(target, i)
        /\ \A i \in drawn.reads : AddressesPixel(src, i)

\* C1 witness: a draw_on clipped on the left and at the bottom of a borrowed
\* target that still stored pixels.
C1_WitnessClippedDrawOn ==
    /\ drawn.op = "draw_on"
    /\ at[1] < 0 /\ at[2] > 0 /\ at[2] + src.height > target.height
    /\ target.stride > target.width
    /\ drawn.writes # {}

\* the bitmap is laid out as Bitmap::new lays it out
Owned(bm) == bm.stride = bm.width

\* C2: draw_on_scaled with scale (1, 1) leaves the target pixel for pixel as
\* draw_on does for the same source, target and position (stated for the
\* owned targets, which are enough to decide it).
C2_ScaleOneIsDrawOn ==
    (/\ drawn.op = "draw_on_scaled" /\ drawn.args = <<<<1, 1>>, <<1, 1>>>>
     /\ Owned(target)) =>
        drawn.pixels = draw_on(src, target, at[1], at[2], Transparent).pixels

\* the source has no transparent pixel
FullyOpaque(bm) == \A n \in 1..Len(bm.pixels) : HasAlpha(bm.pixels[n])

\* C10: for a fully opaque source and integer scale (k, k) whose footprint
\* fits in the target, draw_on_scaled sets target pixel (x + i, y + j) to
\* source pixel (i div k, j div k) (stated for the owned targets, which are
\* enough to decide it).
C10_NearestNeighbourUpsample ==
    (/\ drawn.op = "draw_on_scaled"
     /\ Owned(target)
     /\ drawn.args[1] = drawn.args[2]
     /\ drawn.args[1][2] = 1 /\ drawn.args[1][1] >= 1
     /\ FullyOpaque(src)
     /\ at[1] >= 0 /\ at[2] >= 0
     /\ at[1] + drawn.args[1][1] * src.width <= target.width
     /\ at[2] + drawn.args[1][1] * src.height <= target.height)
    => LET k == drawn.args[1][1]
       IN  \A i \in 0..(k * src.width - 1), j \in 0..(k * src.height - 1) :
              PixelAt(drawn.pixels, target.stride, at[1] + i, at[2] + j)
                  = PixelAt(src.pixels, src.stride, i \div k, j \div k)

\* (x, y) is a pixel of bm
InBounds(bm, x, y) == x >= 0 /\ x < bm.width /\ y >= 0 /\ y < bm.height

\* C18: for 0 <= x < width and 0 <= y < height, plot(x, y, c) changes only
\* pixel (x, y), at flat index x + y * stride, and a following
\* load_pixel(x, y) returns c; for any other (x, y) plot leaves every pixel
\* unchanged and load_pixel returns 0.  Owned and borrowed (stride > width)
\* buffers alike.
C18_PlotAndSampleAreBoundsChecked ==
    drawn.op = "plot" =>
        IF InBounds(target, at[1], at[2])
        THEN /\ drawn.pixels =
                    [target.pixels EXCEPT ![at[1] + at[2] * target.stride + 1] =
                                              drawn.args[1]]
             /\ drawn.sample = drawn.args[1]
        ELSE /\ drawn.pixels = target.pixels
             /\ drawn.sample = Zero

\* C18 witness: a plot on the second or a later row of a borrowed buffer with
\* stride > width, read back by load_pixel
C18_WitnessPlotInBorrowedBuffer ==
    /\ drawn.op = "plot"
    /\ target.stride > target.width
    /\ InBounds(target, at[1], at[2]) /\ at[1] >= 1 /\ at[2] >= 1
    /\ drawn.args[1] # Zero
    /\ drawn.sample = drawn.args[1]
    /\ drawn.writes = {at[1] + at[2] * target.stride}

\* C19: after draw_on(src, dst, x, y) every destination pixel (p, q) with
\* 0 <= p - x < src.width and 0 <= q - y < src.height whose source pixel
\* (p - x, q - y) has a non-zero alpha byte equals that source pixel, and
\* every other element of the destination (row padding included) is
\* unchanged.
C19_DrawOnFullEffect ==
    drawn.op = "draw_on" =>
        \A n \in 1..Len(target.pixels) :
            LET p == (n - 1) % target.stride
                q == (n - 1) \div target.stride
                i == p - at[1]
                j == q - at[2]
                covered == /\ p < target.width
                           /\ InBounds(src, i, j)
                           /\ HasAlpha(PixelAt(src.pixels, src.stride, i, j))
            IN  drawn.pixels[n] = IF covered
                                  THEN PixelAt(src.pixels, src.stride, i, j)
                                  ELSE target.pixels[n]

\* C19 witness: draw_on at (-1, -1) into a one-pixel buffer extracts pixel
\* (1, 1) of a 2 x 2 source
C19_WitnessExtractSubRectangle ==
    /\ drawn.op = "draw_on"
    /\ src.width = 2 /\ src.height = 2
    /\ target.width = 1 /\ target.height = 1
    /\ at = <<0 - 1, 0 - 1>>
    /\ drawn.pixels[1] = SrcColor(1, 1)
    /\ drawn.pixels[1] # target.pixels[1]

\* the image of bm as load_pixel reads it back
Image(bm) ==
    [xy \in (0..(bm.width - 1)) \X (0..(bm.height - 1)) |->
        load_pixel(bm, xy[1], xy[2])]

\* an owned buffer of the same width and height showing the same image
OwnedCopy(bm) ==
    [width |-> bm.width, height |-> bm.height, stride |-> bm.width,
     pixels |-> [n \in 1..(bm.width * bm.height) |->
                    load_pixel(bm, (n - 1) % bm.width, (n - 1) \div bm.width)]]

\* the draw call recorded in drawn, repeated on target tgt
SameCallOn(tgt) ==
    CASE drawn.op = "draw_on" ->
            draw_on(src, tgt, at[1], at[2], Transparent)
      [] drawn.op = "draw_on_scaled" ->
            draw_on_scaled(src, tgt, at[1], at[2], drawn.args[1], drawn.args[2],
                           Transparent)
      [] drawn.op = "draw_tile" ->
            draw_tile(src, tgt, at[1], at[2], drawn.args[1], drawn.args[2],
                      drawn.args[3], AuraTable(150), AuraTable(384), Transparent)

\* C21: for a borrowed destination with stride > width, the image read back
\* with load_pixel after draw_on, draw_on_scaled or draw_tile equals the
\* image the same call leaves in an owned buffer of the same width and
\* height (stated for the calls whose source loads stay inside the source).
C21_StrideAddressing ==
    (/\ drawn.op \in {"draw_on", "draw_on_scaled", "draw_tile"}
     /\ target.stride > target.width
     /\ \A i \in drawn.reads : InBacking(src, i)) =>
        Image([target EXCEPT !.pixels = drawn.pixels])
            = Image([OwnedCopy(target) EXCEPT
                        !.pixels = SameCallOn(OwnedCopy(target)).pixels])

\* the lighting of the statement: inner and outer brightness at the light
\* position of the call, the mute floor and the per-channel scale
InnerBrightness == Low16(load_pixel(AuraTable(150), at[1] + 4, at[2] + 4))
OuterBrightness == Low16(load_pixel(AuraTable(384), at[1] + 4, at[2] + 4))
MuteFloor(gated) == Max(InnerBrightness, IF gated THEN 15 ELSE 47)
ChannelScale(gated, mask_channel) ==
    Max(MuteFloor(gated), (OuterBrightness * mask_channel) \div 256)

\* source pixel c lit for a tile drawn under color_mask
LitColor(c, gated, color_mask) ==
    Pack(0, Min(255, (RedOf(c) * ChannelScale(gated, RedOf(color_mask))) \div 256),
            Min(255, (GreenOf(c) * ChannelScale(gated, GreenOf(color_mask))) \div 256),
            Min(255, (BlueOf(c) * ChannelScale(gated, BlueOf(color_mask))) \div 256))

\* target elements n (flat index n - 1) covered by an opaque source pixel of
\* the call at position at
CoveredElements ==
    {n \in 1..Len(target.pixels) :
        /\ (n - 1) % target.stride < target.width
        /\ InBounds(src, ((n - 1) % target.stride) - at[1],
                         ((n - 1) \div target.stride) - at[2])
        /\ HasAlpha(PixelAt(src.pixels, src.stride,
                            ((n - 1) % target.stride) - at[1],
                            ((n - 1) \div target.stride) - at[2]))}

\* the source pixel drawn onto target element n
SourceOf(n) ==
    PixelAt(src.pixels, src.stride, ((n - 1) % target.stride) - at[1],
            ((n - 1) \div target.stride) - at[2])

\* a non-gated tile stores the lit color itself, never below the floor
\* (channel * 0x2f) >> 8 and never above 0xff
NonGatedWritesLit(n) ==
    /\ drawn.pixels[n] = LitColor(SourceOf(n), FALSE, drawn.args[3])
    /\ \A k \in 1..3 :
          /\ ChannelOf(drawn.pixels[n], k) >= (ChannelOf(SourceOf(n), k) * 47) \div 256
          /\ ChannelOf(drawn.pixels[n], k) <= 255

\* C24 as stated: for every opaque source pixel of a draw_tile call, gated or
\* not, each written channel equals min(0xff, (src_channel * s) >> 8) with
\* s = max(mute, (outer_brightness * mask_channel) >> 8) and mute =
\* max(inner_brightness, 0x2f non-gated / 0x0f gated).
C24_WrittenChannelsAreLit ==
    drawn.op = "draw_tile" =>
        \A n \in CoveredElements :
            \A k \in 1..3 :
                ChannelOf(drawn.pixels[n], k) =
                    ChannelOf(LitColor(SourceOf(n), drawn.args[1], drawn.args[3]), k)

\* C24 amended: a non-gated tile stores the lit color of every opaque source
\* pixel directly, each channel at least (src_channel * 0x2f) >> 8 and at
\* most 0xff for every mask and light position; a gated tile stores blend3
\* of the previous destination pixel and the lit color, keyed by
\* color_mask & visible_mask.
C24_LightingFloor ==
    drawn.op = "draw_tile" =>
        \A n \in CoveredElements :
            IF drawn.args[1]
            THEN drawn.pixels[n] =
                     blend3(target.pixels[n],
                            LitColor(SourceOf(n), TRUE, drawn.args[3]),
                            ColorAnd(drawn.args[3], drawn.args[2]))
            ELSE NonGatedWritesLit(n)

\* C24 witness: a non-gated tile drawn under the black mask whose blue
\* channel 0xff is stored as the floor value (0xff * 0x2f) >> 8
C24_WitnessUnlitNeutralTile ==
    /\ drawn.op = "draw_tile"
    /\ ~drawn.args[1] /\ drawn.args[3] = BLACK
    /\ InnerBrightness < 47
    /\ \E n \in CoveredElements :
          /\ BlueOf(SourceOf(n)) = 255
          /\ BlueOf(drawn.pixels[n]) = (255 * 47) \div 256
          /\ drawn.pixels[n] # target.pixels[n]

----------------------------------------------------------------------------
(* draw_triangle *)

SP_BITS == 4
SP_MUL == Pow2(SP_BITS)
SP_MASK == SP_MUL - 1

\* Vertex coordinates are f32 values c/32 of a pixel, written c: twice as
\* fine as the fixed-point grid.  (v.x * SP_MULF) as i32
ToFixed(c) == TruncDiv(c * SP_MUL, 32)

BiasNever(c, dx, dy) == c

ClampLowNever(v) == v

\* min_x.max(0), min_y.max(0): the bounding box starts inside the buffer
ClampLow(v) == Max(v, 0)

\* the top-left rule: an edge that is neither top nor left has its constant
\* lowered by one
TopLeftBias(c, dx, dy) ==
    IF ~(dy < 0 \/ (dy = 0 /\ dx > 0)) THEN c - 1 ELSE c

\* v0, v1, v2 are <<x, y>>.  `w0 | w1 | w2 >= 0` holds exactly when none of
\* the three i32 values has its sign bit set.
draw_triangle(self, v0, v1, v2, color) ==
    LET vx == <<ToFixed(v0[1]), ToFixed(v1[1]), ToFixed(v2[1])>>
        vy == <<ToFixed(v0[2]), ToFixed(v1[2]), ToFixed(v2[2])>>
        min_x == Shr(Min(Min(vx[1], vx[2]), vx[3]) + SP_MASK, SP_BITS)
        max_x == Shr(Max(Max(vx[1], vx[2]), vx[3]) + SP_MASK, SP_BITS)
        min_y == Shr(Min(Min(vy[1], vy[2]), vy[3]) + SP_MASK, SP_BITS)
        max_y == Shr(Max(Max(vy[1], vy[2]), vy[3]) + SP_MASK, SP_BITS)
        min_xi == ClampLow(min_x)
        max_xi == Min(max_x, self.width)
        min_yi == ClampLow(min_y)
        max_yi == Min(max_y, self.height)
        dx01 == vx[1] - vx[2]
        dx12 == vx[2] - vx[3]
        dx20 == vx[3] - vx[1]
        dy01 == vy[1] - vy[2]
        dy12 == vy[2] - vy[3]
        dy20 == vy[3] - vy[1]
        fdx01 == dx01 * SP_MUL
        fdx12 == dx12 * SP_MUL
        fdx20 == dx20 * SP_MUL
        fdy01 == (-dy01) * SP_MUL
        fdy12 == (-dy12) * SP_MUL
        fdy20 == (-dy20) * SP_MUL
        c0 == TopLeftBias((dy01 * vx[1]) - (dx01 * vy[1]), dx01, dy01)
        c1 == TopLeftBias((dy12 * vx[2]) - (dx12 * vy[2]), dx12, dy12)
        c2 == TopLeftBias((dy20 * vx[3]) - (dx20 * vy[3]), dx20, dy20)
        w0_row == c0 + ((dx01 * min_yi - dy01 * min_xi) * SP_MUL)
        w1_row == c1 + ((dx12 * min_yi - dy12 * min_xi) * SP_MUL)
        w2_row == c2 + ((dx20 * min_yi - dy20 * min_xi) * SP_MUL)
        W0(x, y) == w0_row + (y - min_yi) * fdx01 + (x - min_xi) * fdy01
        W1(x, y) == w1_row + (y - min_yi) * fdx12 + (x - min_xi) * fdy12
        W2(x, y) == w2_row + (y - min_yi) * fdx20 + (x - min_xi) * fdy20
        inside == {xy \in (min_xi..(max_xi - 1)) \X (min_yi..(max_yi - 1)) :
                      /\ W0(xy[1], xy[2]) >= 0
                      /\ W1(xy[1], xy[2]) >= 0
                      /\ W2(xy[1], xy[2]) >= 0}
        stores == {<<xy[2] * self.width + xy[1], xy[1] + xy[2] * self.stride, color>> :
                      xy \in inside}
    IN  Effect("draw_triangle", self, stores, {})

(* Harness: an axis-aligned square, split along a diagonal, drawn as two    *)
(* triangles into a sentinel-filled buffer.                                 *)

TriSize == 3     \* the buffer is TriSize x TriSize pixels

\* sub-pixel offsets n/16 the square's origin and side are tried at
FracSamples == {0, 1, 8, 15}

\* origin and side lengths in 1/16 pixel: whole pixels plus an offset
TriOrigins == {16 * p + f : p \in 0..(TriSize - 1), f \in FracSamples}
TriSides == {16 * p + f : p \in 0..TriSize, f \in FracSamples} \ {0}

TriSentinel == Pack(0, 1, 1, 1)
ColorA == Pack(255, 200, 0, 0)
ColorB == Pack(255, 0, 0, 200)

TriBuffer(pad) ==
    new_borrowed([n \in 1..(TriSize * (TriSize + pad)) |-> TriSentinel],
                 TriSize, TriSize, TriSize + pad)

\* the corners of square q, as vertices in 1/32 pixel
Corner(q, name) ==
    CASE name = "tl" -> <<2 * q.ox, 2 * q.oy>>
      [] name = "tr" -> <<2 * (q.ox + q.side), 2 * q.oy>>
      [] name = "br" -> <<2 * (q.ox + q.side), 2 * (q.oy + q.side)>>
      [] name = "bl" -> <<2 * q.ox, 2 * (q.oy + q.side)>>

\* The two triangles of square q, as corner names.  With winding "fill" the
\* vertices run in the order whose edge functions are non-negative inside
\* (tl, br, tr: anticlockwise on a y-down screen); "back" is the reverse.
TriangleNames(q, n) ==
    LET t == IF q.diag = "tl-br"
             THEN <<<<"tl", "br", "tr">>, <<"tl", "bl", "br">>>>[n]
             ELSE <<<<"tl", "bl", "tr">>, <<"tr", "bl", "br">>>>[n]
        r == [i \in 1..3 |-> t[((i - 1 + q.rot) % 3) + 1]]
    IN  IF q.winding = "fill" THEN r ELSE <<r[3], r[2], r[1]>>

Triangle(q, n) == [i \in 1..3 |-> Corner(q, TriangleNames(q, n)[i])]

\* the pixels of the square's bounding box: those whose sample point
\* (integer coordinate) p has origin <= p < origin + side, as the
\* rasterizer's ceil(min)..ceil(max) range has them
BoxPixels(q) ==
    LET lo(o) == (o + 15) \div 16
        hi(o) == (o + q.side + 15) \div 16
    IN  (lo(q.ox)..(hi(q.ox) - 1)) \X (lo(q.oy)..(hi(q.oy) - 1))

TriInit ==
    /\ \E ox \in TriOrigins, oy \in TriOrigins, side \in TriSides,
          diag \in {"tl-br", "tr-bl"}, rot \in 0..2, winding \in {"fill", "back"},
          pad \in {0, 1} :
          /\ ox + side <= 16 * TriSize
          /\ oy + side <= 16 * TriSize
          /\ tri = [square |-> [ox |-> ox, oy |-> oy, side |-> side, diag |-> diag,
                                rot |-> rot, winding |-> winding],
                    buffer |-> TriBuffer(pad),
                    done |-> 0,
                    count |-> [i \in 0..(TriSize * (TriSize + pad) - 1) |-> 0]]
    /\ blendIn = Idle /\ blendOut = Idle
    /\ src = Idle /\ target = Idle /\ at = Idle /\ drawn = Idle
    /\ tileMap = Idle /\ sampled = Idle /\ fileIo = Idle
    /\ game = Idle /\ frames = Idle /\ audio = Idle

\* draw triangle n of the square and count the stores per pixel
DrawSquareTriangle(n, color) ==
    LET t == Triangle(tri.square, n)
        e == draw_triangle(tri.buffer, t[1], t[2], t[3], color)
    IN  tri' = [tri EXCEPT
                  !.buffer.pixels = e.pixels,
                  !.done = n,
                  !.count = [i \in DOMAIN tri.count |->
                                tri.count[i] + (IF i \in e.writes THEN 1 ELSE 0)]]

DrawFirstTriangle ==
    /\ tri.done = 0
    /\ DrawSquareTriangle(1, ColorA)
    /\ UNCHANGED <<blendVars, blitVars, tileVars, fileVars, gameVars, frameVars, audioVars>>

DrawSecondTriangle ==
    /\ tri.done = 1
    /\ DrawSquareTriangle(2, ColorB)
    /\ UNCHANGED <<blendVars, blitVars, tileVars, fileVars, gameVars, frameVars, audioVars>>

TriNext == DrawFirstTriangle \/ DrawSecondTriangle

SpecTri == TriInit /\ [][TriNext]_vars

\* the flat index of pixel xy of the harness buffer
TriIndex(xy) == xy[1] + xy[2] * tri.buffer.stride

\* after both triangles: every pixel of the box stored exactly once and no
\* longer the sentinel, no other pixel stored
SquareCoveredOnce ==
    /\ \A xy \in BoxPixels(tri.square) :
          /\ tri.count[TriIndex(xy)] = 1
          /\ tri.buffer.pixels[TriIndex(xy) + 1] # TriSentinel
    /\ \A i \in DOMAIN tri.count :
          i \notin {TriIndex(xy) : xy \in BoxPixels(tri.square)} => tri.count[i] = 0

\* C4 as stated: for every such square and split, the two triangles together
\* store every pixel of the bounding box exactly once.
C4_SquareCoveredOnceAnyOrder ==
    tri.done = 2 => SquareCoveredOnce

\* C4 amended: the same, for triangles whose vertices are given in the
\* winding draw_triangle fills.
C4_SquareCoveredOnce ==
    (tri.done = 2 /\ tri.square.winding = "fill") => SquareCoveredOnce

\* C4 witness: a square off the pixel grid covering several pixels, both
\* triangles drawn, each having stored some pixel.
C4_WitnessOffGridSquare ==
    /\ tri.done = 2 /\ tri.square.winding = "fill"
    /\ tri.square.ox % 16 # 0 /\ tri.square.oy % 16 # 0
    /\ Cardinality(BoxPixels(tri.square)) >= 4
    /\ \E n \in DOMAIN tri.buffer.pixels : tri.buffer.pixels[n] = ColorA
    /\ \E n \in DOMAIN tri.buffer.pixels : tri.buffer.pixels[n] = ColorB

(* draw_triangle with vertices anywhere: inside, partly outside and wholly  *)
(* outside the buffer.                                                     *)

\* vertex coordinates in 1/32 pixel: left of / above the buffer, inside it,
\* on its far edge and beyond it
VertexCoordinates == {0 - 48, 0 - 7, 0, 40, 32 * TriSize, 32 * TriSize + 34}

VertexSamples == VertexCoordinates \X VertexCoordinates

TriAnyInit ==
    /\ \E v0 \in VertexSamples, v1 \in VertexSamples, v2 \in VertexSamples,
          pad \in {0, 1} :
          tri = [v |-> <<v0, v1, v2>>, buffer |-> TriBuffer(pad), effect |-> NoCall]
    /\ blendIn = Idle /\ blendOut = Idle
    /\ src = Idle /\ target = Idle /\ at = Idle /\ drawn = Idle
    /\ tileMap = Idle /\ sampled = Idle /\ fileIo = Idle
    /\ game = Idle /\ frames = Idle /\ audio = Idle

CallDrawTriangle ==
    /\ tri.effect = NoCall
    /\ tri' = [tri EXCEPT
                  !.effect = draw_triangle(tri.buffer, tri.v[1], tri.v[2], tri.v[3],
                                           ColorA)]
    /\ UNCHANGED <<blendVars, blitVars, tileVars, fileVars, gameVars, frameVars, audioVars>>

TriAnyNext == CallDrawTriangle

SpecTriAny == TriAnyInit /\ [][TriAnyNext]_vars

\* C22: for all vertex positions draw_triangle stores only to pixels (x, y)
\* with 0 <= x < width and 0 <= y < height, each at flat index
\* x + y * stride, stores exactly the requested color, and leaves every
\* other element as it was.
C22_TriangleStaysInBounds ==
    tri.effect.op = "draw_triangle" =>
        /\ \A i \in tri.effect.writes :
              /\ AddressesPixel(tri.buffer, i)
              /\ tri.effect.pixels[i + 1] = ColorA
        /\ \A n \in 1..Len(tri.buffer.pixels) :
              (n - 1) \notin tri.effect.writes =>
                  tri.effect.pixels[n] = tri.buffer.pixels[n]

\* C22 witness: a triangle with one vertex left of and above the buffer and
\* one beyond its far corner, drawn into a borrowed buffer, that filled some
\* pixels of the first column and of the last row
C22_WitnessTrianglePartlyOutside ==
    /\ tri.effect.op = "draw_triangle"
    /\ tri.buffer.stride > tri.buffer.width
    /\ \E i \in 1..3 : tri.v[i][1] < 0 /\ tri.v[i][2] < 0
    /\ \E i \in 1..3 : tri.v[i][1] > 32 * TriSize /\ tri.v[i][2] > 32 * TriSize
    /\ \E i \in tri.effect.writes : i % tri.buffer.stride = 0
    /\ \E i \in tri.effect.writes : i \div tri.buffer.stride = TriSize - 1

----------------------------------------------------------------------------
(* TileFlags, tile definitions, TileMap *)

NONE == 0
COLLISION == 1
SPIKE == 2
FLAG_RED == 4
FLAG_GREEN == 8
FLAG_BLUE == 16
FLAG_WHITE == BitOr(BitOr(FLAG_RED, FLAG_GREEN), FLAG_BLUE)

\* TileFlags::intersects
intersects(flags, other) == BitAnd(flags, other) # 0

IsColoredAlways(flags) == TRUE

IsColoredRedOnly(flags) == intersects(flags, FLAG_RED)

is_colored(flags) == intersects(flags, FLAG_WHITE)

\* the TileStruct build_tileset makes for a sheet color and the flags of a
\* tile position: the color's gate flag is added for RED, BLUE and GREEN
TileStruct(color, rel_tile_flags) ==
    [color |-> color,
     flags |-> IF color = RED THEN BitOr(rel_tile_flags, FLAG_RED)
               ELSE IF color = BLUE THEN BitOr(rel_tile_flags, FLAG_BLUE)
               ELSE IF color = GREEN THEN BitOr(rel_tile_flags, FLAG_GREEN)
               ELSE rel_tile_flags]

\* tile_objs: the sparse id -> definition map (ids come from sheet
\* coordinates and have gaps)
tile_objs ==
    (5 :> TileStruct(BLACK, COLLISION)) @@
    (36 :> TileStruct(BLACK, SPIKE)) @@
    (100 :> TileStruct(RED, COLLISION)) @@
    (132 :> TileStruct(RED, SPIKE)) @@
    (196 :> TileStruct(BLUE, COLLISION)) @@
    (292 :> TileStruct(GREEN, BitOr(SPIKE, COLLISION))) @@
    (388 :> TileStruct(YELLOW, COLLISION))

ContainsKeyAlways(tile_index) == TRUE

\* tile_objs.contains_key(&(tile_index as usize)): a negative i32 becomes a
\* usize above 2^63, which is the key of no definition
contains_key(tile_index) == tile_index >= 0 /\ tile_index \in DOMAIN tile_objs

tile_size == 8

\* World positions are f32 values c/2, written c: half pixels.
\* (position / tile_size as f32).as_ivec2() truncates toward zero.
world_to_tile_index(self, position) ==
    <<TruncDiv(position[1], 2 * self.tile_size),
      TruncDiv(position[2], 2 * self.tile_size)>>

\* the flags returned, the indices of self.tiles that were read, and whether
\* the call panicked (BTreeMap's Index panics on a key it does not hold)
sample_world_pos(self, position, color_mask0) ==
    LET color_mask == Rgb(color_mask0)
        tile_pos == world_to_tile_index(self, position)
    IN  IF \/ tile_pos[1] < 0 \/ tile_pos[2] < 0
           \/ tile_pos[1] >= self.width \/ tile_pos[2] >= self.height
        THEN [flags |-> NONE, indexed |-> {}, panic |-> FALSE]
        ELSE
        LET index == tile_pos[1] + tile_pos[2] * self.width
            tile_index == self.tiles[index + 1]
        IN  IF tile_index # -1 /\ contains_key(tile_index)
            THEN IF tile_index \notin DOMAIN tile_objs
                 THEN [flags |-> NONE, indexed |-> {index}, panic |-> TRUE]
                 ELSE
                 LET tile_flags == tile_objs[tile_index].flags
                 IN  [indexed |-> {index}, panic |-> FALSE,
                      flags |->
                         IF /\ is_colored(tile_flags)
                            /\ ColorAnd(tile_objs[tile_index].color, color_mask) = Zero
                         THEN NONE
                         ELSE tile_flags]
            ELSE [flags |-> NONE, indexed |-> {index}, panic |-> FALSE]

(* TileMap::draw *)

\* f32::ceil of n/d for d > 0
CeilDiv(n, d) == 0 - ((0 - n) \div d)

\* bounds_in_tiles.min.max(0.0) as usize, for a camera coordinate in pixels
TileMin(self, camera) == IF camera < 0 THEN 0 ELSE camera \div self.tile_size

\* bounds_in_tiles.max.ceil().clamp(0.0, cells as f32) as usize
TileMax(self, camera, screen, cells) ==
    Clamp(CeilDiv(camera + screen, self.tile_size), 0, cells)

\* mask_color: the gate flag of the first non-zero channel of color_mask
MaskColor(color_mask) ==
    IF RedOf(color_mask) > 0 THEN FLAG_RED
    ELSE IF GreenOf(color_mask) > 0 THEN FLAG_GREEN
    ELSE IF BlueOf(color_mask) > 0 THEN FLAG_BLUE
    ELSE NONE

\* a usize count that wrapped below zero: more iterations than any index
Wrapped == 0 - 1

\* tile_max - tile_min in usize: panics when overflow checks are compiled in,
\* wraps otherwise
CountTiles(tile_min, tile_max) ==
    IF tile_max >= tile_min THEN tile_max - tile_min ELSE Wrapped

\* the draw call one cell makes, if any
CellCall(self, tile_index, x, y, d) ==
    LET defined == contains_key(tile_index)
        flags == IF defined THEN tile_objs[tile_index].flags ELSE NONE
        px == x * self.tile_size - d.camera[1] + d.tile_min[1] * self.tile_size
        py == y * self.tile_size - d.camera[2] + d.tile_min[2] * self.tile_size
        is_tile_shown == \/ ~intersects(flags, FLAG_WHITE)
                         \/ intersects(flags, MaskColor(d.color_mask))
    IN  IF tile_index = -1 THEN {}
        ELSE IF d.editor_mode
        THEN {[op |-> "draw_on", tile |-> tile_index, unsupported |-> ~defined,
               x |-> px, y |-> py]}
        ELSE IF is_tile_shown
        THEN {[op |-> "draw_tile_different_colors", tile |-> tile_index,
               unsupported |-> ~defined, x |-> px, y |-> py]}
        ELSE {}

\* the loops over y in 0..tile_count_y and x in 0..tile_count_x, from cell
\* (x, y) on; indexing self.tiles past its end panics
RECURSIVE DrawLoop(_, _, _, _, _)
DrawLoop(self, d, x, y, acc) ==
    IF d.count[2] # Wrapped /\ y >= d.count[2] THEN acc
    ELSE IF d.count[1] = 0
    THEN IF d.count[2] = Wrapped THEN [acc EXCEPT !.spins = TRUE] ELSE acc
    ELSE IF d.count[1] # Wrapped /\ x >= d.count[1]
    THEN DrawLoop(self, d, 0, y + 1, acc)
    ELSE
    LET tx == d.tile_min[1] + x
        ty == d.tile_min[2] + y
        index == ty * self.width + tx
    IN  IF index >= Len(self.tiles) THEN [acc EXCEPT !.panic = TRUE]
        ELSE DrawLoop(self, d, x + 1, y,
                [acc EXCEPT !.read = @ \cup {<<tx, ty>>},
                            !.calls = @ \cup CellCall(self, self.tiles[index + 1], x, y, d)])

\* TileMap::draw onto a target of screen[1] x screen[2] pixels: the cells
\* read, the draw calls made and whether the call panicked or kept looping
draw(self, screen, camera, color_mask, editor_mode, overflow_checks) ==
    LET tile_min == <<TileMin(self, camera[1]), TileMin(self, camera[2])>>
        tile_max == <<TileMax(self, camera[1], screen[1], self.width),
                      TileMax(self, camera[2], screen[2], self.height)>>
        count == <<CountTiles(tile_min[1], tile_max[1]),
                   CountTiles(tile_min[2], tile_max[2])>>
        none == [read |-> {}, calls |-> {}, panic |-> FALSE, spins |-> FALSE]
    IN  IF overflow_checks /\ Wrapped \in {count[1], count[2]}
        THEN [none EXCEPT !.panic = TRUE]
        ELSE DrawLoop(self, [camera |-> camera, tile_min |-> tile_min, count |-> count,
                             color_mask |-> color_mask, editor_mode |-> editor_mode],
                      0, 0, none)

(* Sampling: inputs *)

MaxGridW == 3
MaxGridH == 2

\* ids found in level cells: empty, defined (plain and gated), undefined,
\* negative other than -1
IdSamples == <<-1, 5, 100, 36, 196, 7, 292, 388, 132, -3>>

\* a w x h grid whose cells run through IdSamples from position shift
GridSample(w, h, shift) ==
    [tile_size |-> tile_size, width |-> w, height |-> h,
     tiles |-> [n \in 1..(w * h) |-> IdSamples[((n - 1 + shift) % Len(IdSamples)) + 1]]]

\* world coordinates in half pixels: around every tile boundary from two
\* tiles before the grid to one tile after it
CoordSamples(tiles) ==
    {2 * tile_size * t + f : t \in (-2)..tiles, f \in {0, 1, 2 * tile_size - 1}}

MaskSamples ==
    {Zero, BLACK, RED, GREEN, BLUE, YELLOW, Pack(0, 1, 0, 0), Pack(255, 0, 0, 128)}

TileInit ==
    /\ tileMap \in {GridSample(w, h, shift) :
                       w \in 1..MaxGridW, h \in 1..MaxGridH,
                       shift \in 0..(Len(IdSamples) - 1)}
    /\ sampled = NoCall
    /\ blendIn = Idle /\ blendOut = Idle
    /\ src = Idle /\ target = Idle /\ at = Idle /\ drawn = Idle
    /\ tri = Idle /\ fileIo = Idle
    /\ game = Idle /\ frames = Idle /\ audio = Idle

CallWorldToTileIndex ==
    /\ sampled = NoCall
    /\ \E x \in CoordSamples(MaxGridW), y \in CoordSamples(MaxGridH) :
          sampled' = [op |-> "world_to_tile_index", position |-> <<x, y>>,
                      tile |-> world_to_tile_index(tileMap, <<x, y>>)]
    /\ UNCHANGED <<tileMap, blendVars, blitVars, triVars, fileVars, gameVars, frameVars, audioVars>>

CallSampleWorldPos ==
    /\ sampled = NoCall
    /\ \E x \in CoordSamples(MaxGridW), y \in CoordSamples(MaxGridH),
          color_mask \in MaskSamples :
          LET r == sample_world_pos(tileMap, <<x, y>>, color_mask)
          IN  sampled' = [op |-> "sample_world_pos", position |-> <<x, y>>,
                          color_mask |-> color_mask,
                          flags |-> r.flags, indexed |-> r.indexed,
                          panic |-> r.panic]
    /\ UNCHANGED <<tileMap, blendVars, blitVars, triVars, fileVars, gameVars, frameVars, audioVars>>

\* target sizes in pixels: one tile, and more than the largest grid
ScreenSamples == {<<tile_size, tile_size>>, <<5 * tile_size, 3 * tile_size>>}

\* camera coordinates in pixels (the game rounds its camera): from two tiles
\* before the grid to one tile after the largest grid
CameraSamples(tiles) == {tile_size * t + f : t \in (-2)..(tiles + 1), f \in {0, 3}}

\* editor mode and color mask
DrawModes ==
    {<<TRUE, BLACK>>, <<FALSE, BLACK>>, <<FALSE, RED>>, <<FALSE, GREEN>>,
     <<FALSE, BLUE>>, <<FALSE, YELLOW>>}

CallDraw ==
    /\ sampled = NoCall
    /\ \E screen \in ScreenSamples, mode \in DrawModes, overflow_checks \in BOOLEAN,
          x \in CameraSamples(MaxGridW), y \in CameraSamples(MaxGridH) :
          LET r == draw(tileMap, screen, <<x, y>>, mode[2], mode[1], overflow_checks)
          IN  sampled' = [op |-> "draw", camera |-> <<x, y>>, screen |-> screen,
                          editor_mode |-> mode[1], color_mask |-> mode[2],
                          overflow_checks |-> overflow_checks,
                          read |-> r.read, calls |-> r.calls,
                          panic |-> r.panic, spins |-> r.spins]
    /\ UNCHANGED <<tileMap, blendVars, blitVars, triVars, fileVars, gameVars, frameVars, audioVars>>

TileNext == CallWorldToTileIndex \/ CallSampleWorldPos \/ CallDraw

SpecTile == TileInit /\ [][TileNext]_vars

\* floor(position / tile_size), componentwise
FloorTile(position) ==
    <<position[1] \div (2 * tile_size), position[2] \div (2 * tile_size)>>

InGrid(t) ==
    /\ t[1] >= 0 /\ t[1] < tileMap.width
    /\ t[2] >= 0 /\ t[2] < tileMap.height

\* the id in the grid cell the sampled position lies in
CellId == LET t == FloorTile(sampled.position)
          IN  tileMap.tiles[t[1] + t[2] * tileMap.width + 1]

\* the sampled position lies in a grid cell whose id has a definition
SampledDefined ==
    /\ sampled.op = "sample_world_pos"
    /\ InGrid(FloorTile(sampled.position))
    /\ CellId \in DOMAIN tile_objs

Gated(def) == BitAnd(def.flags, FLAG_WHITE) # 0

\* C5: for a cell with a color-gated definition, sample_world_pos returns no
\* flags exactly when (color & mask & 0xFFFFFF) == 0 and the definition's
\* flags otherwise; a red-gated tile has no flags under every mask without
\* red bits and all its flags under every mask with a red bit.
C5_GatedFlagsFollowMask ==
    (SampledDefined /\ Gated(tile_objs[CellId])) =>
        LET def == tile_objs[CellId]
            m == sampled.color_mask
            dark == /\ BitAnd(RedOf(def.color), RedOf(m)) = 0
                    /\ BitAnd(GreenOf(def.color), GreenOf(m)) = 0
                    /\ BitAnd(BlueOf(def.color), BlueOf(m)) = 0
        IN  /\ sampled.flags = (IF dark THEN NONE ELSE def.flags)
            /\ sampled.flags = NONE <=> dark
            /\ BitAnd(def.flags, FLAG_RED) # 0 =>
                  sampled.flags = (IF RedOf(m) = 0 THEN NONE ELSE def.flags)

\* C5 witness: a red-gated collision tile sampled under a mask with a single
\* red bit and under one with none
C5_WitnessRedLit ==
    /\ SampledDefined /\ CellId = 100
    /\ sampled.color_mask = Pack(0, 1, 0, 0)
    /\ sampled.flags = BitOr(COLLISION, FLAG_RED)

\* C6: for a cell with a non-gated definition, sample_world_pos returns the
\* definition's flags under every mask.
C6_PlainFlagsNeverSuppressed ==
    (SampledDefined /\ ~Gated(tile_objs[CellId])) =>
        sampled.flags = tile_objs[CellId].flags

\* C6 witness: the plain collision tile 5 sampled under mask 0
C6_WitnessPlainUnderZeroMask ==
    /\ SampledDefined /\ CellId = 5
    /\ sampled.color_mask = Zero
    /\ sampled.flags = COLLISION

\* C7: a position whose floor(pos / tile_size) lies outside the grid yields
\* no flags under every mask and never indexes the tile array.
C7_OutsideGridIsEmpty ==
    (sampled.op = "sample_world_pos" /\ ~InGrid(FloorTile(sampled.position))) =>
        sampled.flags = NONE /\ sampled.indexed = {}

\* C8: world_to_tile_index returns floor(pos.x / tile_size) and
\* floor(pos.y / tile_size).
C8_WorldToTileIsFloor ==
    sampled.op = "world_to_tile_index" => sampled.tile = FloorTile(sampled.position)

\* C11: for an in-grid cell whose id is -1 or has no definition (negative ids
\* included), sample_world_pos returns no flags under every mask and does
\* not panic.
C11_UndefinedIdsAreEmpty ==
    (/\ sampled.op = "sample_world_pos"
     /\ InGrid(FloorTile(sampled.position))
     /\ (CellId = -1 \/ CellId \notin DOMAIN tile_objs)) =>
        sampled.flags = NONE /\ ~sampled.panic

\* C11 witness: a cell holding the undefined id 7 sampled under a lit mask
C11_WitnessUndefinedId ==
    /\ sampled.op = "sample_world_pos"
    /\ InGrid(FloorTile(sampled.position))
    /\ CellId = 7
    /\ sampled.color_mask = YELLOW
    /\ sampled.flags = NONE /\ ~sampled.panic

\* C12: for every camera position and target size, TileMap::draw completes
\* without failure and reads only cells (tx, ty) with 0 <= tx < width and
\* 0 <= ty < height.
C12_DrawIsTotal ==
    sampled.op = "draw" =>
        /\ ~sampled.panic /\ ~sampled.spins
        /\ \A c \in sampled.read : InGrid(c)

\* TileMap::draw composited the tile of cell c
CellDrawn(c) ==
    \E call \in sampled.calls :
        /\ call.x = c[1] * tile_size - sampled.camera[1]
        /\ call.y = c[2] * tile_size - sampled.camera[2]

\* sample_world_pos, under the mask of the draw call, of a point inside
\* cell c
CellFlags(c) ==
    sample_world_pos(tileMap, <<2 * tile_size * c[1] + 1, 2 * tile_size * c[2] + 1>>,
                     sampled.color_mask).flags

\* the gated cells the draw call had in view
GatedCellsInView ==
    {c \in sampled.read :
        LET id == tileMap.tiles[c[1] + c[2] * tileMap.width + 1]
        IN  id \in DOMAIN tile_objs /\ Gated(tile_objs[id])}

\* C26: for every color mask the game can hold and every color-gated tile in
\* view, TileMap::draw in non-editor mode composites the tile if and only if
\* sample_world_pos with the same mask returns that tile's flags for a point
\* inside the cell.
C26_VisibilityMatchesSolidity ==
    (sampled.op = "draw" /\ ~sampled.editor_mode /\ ~sampled.panic /\ ~sampled.spins) =>
        \A c \in GatedCellsInView :
            LET def == tile_objs[tileMap.tiles[c[1] + c[2] * tileMap.width + 1]]
            IN  /\ CellDrawn(c) <=> CellFlags(c) = def.flags
                /\ ~CellDrawn(c) <=> CellFlags(c) = NONE

----------------------------------------------------------------------------
(* TileMap::store_to_file and TileMap::from_file *)
(* A file is a sequence of one-character strings. *)

Digits == <<"0", "1", "2", "3", "4", "5", "6", "7", "8", "9">>

DigitValue(c) == CHOOSE d \in 0..9 : Digits[d + 1] = c

IsDigit(c) == \E d \in 0..9 : Digits[d + 1] = c

RECURSIVE FormatNat(_)
FormatNat(n) ==
    IF n < 10 THEN <<Digits[n + 1]>>
    ELSE Append(FormatNat(n \div 10), Digits[(n % 10) + 1])

FormatUnsigned(n) == FormatNat(Abs(n))

\* format!("{}", tile) for an i32
FormatI32(n) == IF n < 0 THEN <<"-">> \o FormatNat(0 - n) ELSE FormatNat(n)

RECURSIVE ParseNat(_, _)
ParseNat(chars, value) ==
    IF chars = <<>> THEN value
    ELSE ParseNat(Tail(chars), 10 * value + DigitValue(Head(chars)))

\* str::parse::<i32>: an optional sign, then one or more digits
ParseI32(chars) ==
    LET signed == chars # <<>> /\ Head(chars) \in {"-", "+"}
        body == IF signed THEN Tail(chars) ELSE chars
    IN  IF body = <<>> \/ \E n \in DOMAIN body : ~IsDigit(body[n])
        THEN [ok |-> FALSE, value |-> 0]
        ELSE [ok |-> TRUE,
              value |-> IF signed /\ Head(chars) = "-"
                        THEN 0 - ParseNat(body, 0) ELSE ParseNat(body, 0)]

RECURSIVE StoreRow(_, _, _)
StoreRow(self, y, x) ==
    IF x >= self.width THEN <<>>
    ELSE FormatI32(self.tiles[y * self.width + x + 1]) \o <<",">>
         \o StoreRow(self, y, x + 1)

\* String::pop
Pop(data) == IF data = <<>> THEN data ELSE SubSeq(data, 1, Len(data) - 1)

RECURSIVE StoreRows(_, _)
StoreRows(self, y) ==
    IF y >= self.height THEN <<>>
    ELSE Pop(StoreRow(self, y, 0)) \o <<"\n">> \o StoreRows(self, y + 1)

\* the text store_to_file writes
store_to_file(self) == StoreRows(self, 0)

\* the character loop of from_file: st holds accumulator, row, tile_layout,
\* tile_count_x and whether a parse has panicked
RECURSIVE ReadChars(_, _)
ReadChars(chars, st) ==
    IF chars = <<>> \/ st.panic THEN st
    ELSE
    LET char == Head(chars)
    IN  IF char \in {",", "\n"}
        THEN LET p == ParseI32(st.accumulator)
                 row == Append(st.row, p.value)
             IN  IF ~p.ok THEN [st EXCEPT !.panic = TRUE]
                 ELSE IF char = "\n"
                 THEN ReadChars(Tail(chars),
                         [st EXCEPT !.accumulator = <<>>, !.row = <<>>,
                                    !.tile_layout = Append(@, row),
                                    !.tile_count_x = Max(@, Len(row))])
                 ELSE ReadChars(Tail(chars),
                         [st EXCEPT !.accumulator = <<>>, !.row = row])
        ELSE IF char = "\r" THEN ReadChars(Tail(chars), st)
        ELSE ReadChars(Tail(chars), [st EXCEPT !.accumulator = Append(@, char)])

\* Vec::resize(new_len, 0)
Resize(row, new_len) ==
    [n \in 1..new_len |-> IF n <= Len(row) THEN row[n] ELSE 0]

RECURSIVE Flatten(_, _)
Flatten(tile_layout, tile_count_x) ==
    IF tile_layout = <<>> THEN <<>>
    ELSE Resize(Head(tile_layout), tile_count_x)
         \o Flatten(Tail(tile_layout), tile_count_x)

\* the TileMap from_file builds from a file's text, or a panic
from_file(chars) ==
    LET st == ReadChars(chars, [accumulator |-> <<>>, row |-> <<>>,
                                tile_layout |-> <<>>, tile_count_x |-> 0,
                                panic |-> FALSE])
    IN  IF st.panic THEN [panic |-> TRUE]
        ELSE [panic |-> FALSE, tile_size |-> tile_size,
              width |-> st.tile_count_x, height |-> Len(st.tile_layout),
              tiles |-> Flatten(st.tile_layout, st.tile_count_x)]

(* Store and load: inputs *)

MaxCells == 4

FileIds == {-1, 0, 40, -305}

\* the tile maps the program holds have a width and a height of at least 1
FileSizes == {d \in (1..MaxCells) \X (1..MaxCells) : d[1] * d[2] <= MaxCells}

FileGrids ==
    UNION {{[tile_size |-> tile_size, width |-> d[1], height |-> d[2], tiles |-> t] :
              t \in [1..(d[1] * d[2]) -> FileIds]} : d \in FileSizes}

\* rows of a level text written outside the game: up to MaxRows rows of one
\* or two entries each
MaxRows == 3

RowSamples == {<<-1>>, <<7>>, <<-1, 7>>, <<7, 7>>, <<7, -1>>}

RowLists == UNION {[1..n -> RowSamples] : n \in 1..MaxRows}

RECURSIVE RowText(_)
RowText(row) ==
    IF Len(row) = 1 THEN FormatI32(row[1])
    ELSE FormatI32(Head(row)) \o <<",">> \o RowText(Tail(row))

\* the text of the rows, each ended by "\n" or by "\r\n"
RECURSIVE RowsText(_, _)
RowsText(rows, crlf) ==
    IF rows = <<>> THEN <<>>
    ELSE RowText(Head(rows)) \o (IF crlf THEN <<"\r", "\n">> ELSE <<"\n">>)
         \o RowsText(Tail(rows), crlf)

NoGrid == [tile_size |-> tile_size, width |-> 0, height |-> 0, tiles |-> <<>>]

FileInit ==
    /\ fileIo \in {[grid |-> g, rows |-> <<>>, text |-> <<>>, loaded |-> NoCall,
                     step |-> "start"] : g \in FileGrids}
               \cup {[grid |-> NoGrid, rows |-> rows, text |-> RowsText(rows, crlf),
                      loaded |-> NoCall, step |-> "text"] :
                        rows \in RowLists, crlf \in BOOLEAN}
    /\ blendIn = Idle /\ blendOut = Idle
    /\ src = Idle /\ target = Idle /\ at = Idle /\ drawn = Idle
    /\ tri = Idle /\ tileMap = Idle /\ sampled = Idle
    /\ game = Idle /\ frames = Idle /\ audio = Idle

CallStoreToFile ==
    /\ fileIo.step = "start"
    /\ fileIo' = [fileIo EXCEPT !.text = store_to_file(fileIo.grid),
                                !.step = "stored"]
    /\ UNCHANGED <<blendVars, blitVars, triVars, tileVars, gameVars, frameVars, audioVars>>

CallFromFile ==
    /\ fileIo.step = "stored"
    /\ fileIo' = [fileIo EXCEPT !.loaded = from_file(fileIo.text),
                                !.step = "loaded"]
    /\ UNCHANGED <<blendVars, blitVars, triVars, tileVars, gameVars, frameVars, audioVars>>

\* from_file on a level text that store_to_file did not write
CallFromFileText ==
    /\ fileIo.step = "text"
    /\ fileIo' = [fileIo EXCEPT !.loaded = from_file(fileIo.text),
                                !.step = "loaded_text"]
    /\ UNCHANGED <<blendVars, blitVars, triVars, tileVars, gameVars, frameVars, audioVars>>

FileNext == CallStoreToFile \/ CallFromFile \/ CallFromFileText

SpecFile == FileInit /\ [][FileNext]_vars

\* C9: a tile grid of width at least 1 written by store_to_file and read by
\* from_file comes back with the same width, height and tile ids.
C9_StoreLoadRoundTrip ==
    fileIo.step = "loaded" =>
        /\ ~fileIo.loaded.panic
        /\ fileIo.loaded.width = fileIo.grid.width
        /\ fileIo.loaded.height = fileIo.grid.height
        /\ fileIo.loaded.tiles = fileIo.grid.tiles

\* C9 witness: a grid of two rows holding a negative multi-digit id and a 0
\* has been stored and loaded
C9_WitnessTwoRows ==
    /\ fileIo.step = "loaded"
    /\ fileIo.grid.width = 2 /\ fileIo.grid.height = 2
    /\ fileIo.grid.tiles = <<-305, 0, 40, -1>>
    /\ Len(fileIo.text) = 13
    /\ fileIo.loaded.tiles = <<-305, 0, 40, -1>>

----------------------------------------------------------------------------
(* Game: color mask, mask objects, inventory, player drawing *)

\* Sprite::draw_player: the palette index chosen for a color mask
color_index(color_mask) ==
    IF Rgb(color_mask) = Zero THEN 0
    ELSE IF color_mask = YELLOW THEN 4
    ELSE IF RedOf(color_mask) > GreenOf(color_mask)
         THEN (IF RedOf(color_mask) > BlueOf(color_mask) THEN 1 ELSE 3)
    ELSE IF GreenOf(color_mask) > BlueOf(color_mask) THEN 2
    ELSE 3

\* number of pairs in color_table of draw_on_scaled_player
ColorTableLen == 4

\* draw_on_scaled_player with the scale (+-1, 1) Player::draw passes:
\* color_table[color_index as usize] panics past the end of the array
draw_player(color_mask) ==
    [op |-> "draw_player", color_mask |-> color_mask,
     color_index |-> color_index(color_mask),
     panic |-> color_index(color_mask) >= ColorTableLen]

START_COLOR_MASK == BLACK

\* the colors of mask_game_objects
MaskColors == {RED, GREEN, BLUE, YELLOW}

\* stands for "no mask key pressed" and "no mask object overlapped"
NoMask == Zero

NoSave == [some |-> FALSE]

\* ticks the winning sequence lasts (2.5 s at no more than 1/30 s a tick)
WinTicks == 3

\* ticks the death sequence lasts (1.5 s)
DeathTicks == 2

DEBUG_MODE == TRUE

HasMask(g, color) == \E n \in DOMAIN g.inventory : g.inventory[n] = color

\* SaveState built from the inventory and the color mask
SaveState(g) ==
    [some |-> TRUE, has_red_mask |-> HasMask(g, RED),
     has_green_mask |-> HasMask(g, GREEN), has_blue_mask |-> HasMask(g, BLUE),
     color_mask |-> g.color_mask]

\* restore_save_game pushes the saved masks in the order red, blue, green
RestoredMasks(save) ==
    (IF save.has_red_mask THEN <<RED>> ELSE <<>>)
    \o (IF save.has_blue_mask THEN <<BLUE>> ELSE <<>>)
    \o (IF save.has_green_mask THEN <<GREEN>> ELSE <<>>)

restore_save_game(g) ==
    IF ~g.save_state.some THEN g
    ELSE [g EXCEPT !.inventory = g.inventory \o RestoredMasks(g.save_state),
                   !.visible = g.visible \ {RestoredMasks(g.save_state)[n] :
                                               n \in DOMAIN RestoredMasks(g.save_state)},
                   !.color_mask = g.save_state.color_mask]

ResetKeepsInventory(g) ==
    restore_save_game([g EXCEPT !.is_dead = FALSE, !.is_winner = FALSE,
                                !.visible = MaskColors,
                                !.color_mask = START_COLOR_MASK,
                                !.winning_sequence_duration = WinTicks,
                                !.death_sequence_duration = DeathTicks])

reset_game(g) ==
    restore_save_game([g EXCEPT !.is_dead = FALSE, !.is_winner = FALSE,
                                !.inventory = <<>>, !.visible = MaskColors,
                                !.color_mask = START_COLOR_MASK,
                                !.winning_sequence_duration = WinTicks,
                                !.death_sequence_duration = DeathTicks])

\* Game::tick while the winning sequence plays
TickWinning(g) ==
    LET g1 == [g EXCEPT !.winning_sequence_duration = @ - 1, !.save_state = NoSave,
                        !.savepoint_activated = FALSE]
    IN  IF g1.winning_sequence_duration < 0 THEN reset_game(g1)
        ELSE [g1 EXCEPT !.player_draw = draw_player(g1.color_mask),
                        !.panicked = draw_player(g1.color_mask).panic]

\* Game::tick while the death sequence plays (compiled out by DEBUG_MODE)
TickDying(g) ==
    LET g1 == [g EXCEPT !.death_sequence_duration = @ - 1]
    IN  IF g1.death_sequence_duration < 0 THEN reset_game(g1)
        ELSE [g1 EXCEPT !.player_draw = draw_player(g1.color_mask),
                        !.panicked = draw_player(g1.color_mask).panic]

\* the keys and mouse buttons the model follows
Keys == {"MaskRed", "MaskGreen", "MaskBlue", "EditMode"}
Buttons == {"Left"}

\* the keys whose release is followed
KeyUpSamples == {"MaskRed"}

\* InputState::reset
InputReset(g) ==
    [g EXCEPT !.key_pressed = {}, !.key_released = {},
              !.mouse_pressed = {}, !.mouse_released = {}]

PressMaskKeyAlways(g, key, color) ==
    IF key \in g.key_pressed THEN [g EXCEPT !.color_mask = color] ELSE g

\* one mask key: wearing a mask needs it in the inventory
PressMaskKey(g, key, color) ==
    IF key \in g.key_pressed /\ HasMask(g, color)
    THEN [g EXCEPT !.color_mask = color] ELSE g

\* the mask keys, tested in the order red, green, blue
PressMaskKeys(g) ==
    PressMaskKey(PressMaskKey(PressMaskKey(g, "MaskRed", RED), "MaskGreen", GREEN),
                 "MaskBlue", BLUE)

\* the loop over mask_game_objects, for the visible mask the player
\* overlaps; `returned` is the early return taken for the golden mask
PickUpMask(g, touch) ==
    IF touch \notin g.visible THEN g
    ELSE LET g1 == [g EXCEPT !.color_mask = touch, !.visible = @ \ {touch}]
         IN  IF touch = YELLOW THEN [g1 EXCEPT !.is_winner = TRUE, !.returned = TRUE]
             ELSE LET g2 == [g1 EXCEPT !.inventory = Append(@, touch)]
                  IN  [g2 EXCEPT !.save_state = SaveState(g2)]

\* the loop over savepoint_objects, when the player overlaps the savepoint
TouchSavepoint(g) ==
    [g EXCEPT !.savepoint_activated = TRUE, !.save_state = SaveState(g)]

\* Game::tick in normal play: dies whether a spike or enemy kills the
\* player, savepoint whether the savepoint is touched, touch the mask object
\* overlapped (NoMask for none)
TickPlaying(g, dies, savepoint, touch) ==
    LET g1 == IF g.editor_mode THEN g ELSE PressMaskKeys(g)
        g2 == [g1 EXCEPT !.is_dead = @ \/ dies]
        g3 == [g2 EXCEPT !.player_draw = draw_player(g2.color_mask),
                         !.panicked = draw_player(g2.color_mask).panic]
        g4 == IF savepoint THEN TouchSavepoint(g3) ELSE g3
        g5 == PickUpMask(g4, touch)
    IN  IF g3.panicked THEN g3
        ELSE IF g5.returned THEN g5
        ELSE InputReset(g5)

\* Game::tick; last names the latest tick or reset_game call
tick(g, dies, savepoint, touch) ==
    LET g0 == [g EXCEPT !.returned = FALSE]
        g1 == IF g0.is_winner THEN [TickWinning(g0) EXCEPT !.returned = TRUE]
              ELSE IF ~DEBUG_MODE /\ g0.is_dead
                   THEN [TickDying(g0) EXCEPT !.returned = TRUE]
              ELSE TickPlaying(g0, dies, savepoint, touch)
    IN  [g1 EXCEPT !.last = IF g1.panicked THEN "panic" ELSE "tick"]

on_key_down(g, key) ==
    [g EXCEPT !.key_pressed = @ \cup {key},
              !.editor_mode = IF key = "EditMode" THEN ~@ ELSE @]

on_key_up(g, key) == [g EXCEPT !.key_released = @ \cup {key}]

on_mouse_button_down(g, button) ==
    [g EXCEPT !.mouse_pressed = @ \cup {button}]

on_mouse_button_up(g, button) ==
    [g EXCEPT !.mouse_released = @ \cup {button}]

\* Game::new: the fields as constructed, then reset_game
GameInit ==
    /\ game = reset_game([color_mask |-> START_COLOR_MASK, inventory |-> <<>>,
                          visible |-> MaskColors, is_winner |-> FALSE,
                          is_dead |-> FALSE, winning_sequence_duration |-> WinTicks,
                          death_sequence_duration |-> DeathTicks,
                          save_state |-> NoSave, savepoint_activated |-> FALSE,
                          editor_mode |-> FALSE,
                          key_pressed |-> {}, key_released |-> {},
                          mouse_pressed |-> {}, mouse_released |-> {},
                          player_draw |-> NoCall, panicked |-> FALSE,
                          returned |-> FALSE, last |-> "new"])
    /\ blendIn = Idle /\ blendOut = Idle
    /\ src = Idle /\ target = Idle /\ at = Idle /\ drawn = Idle
    /\ tri = Idle /\ tileMap = Idle /\ sampled = Idle /\ fileIo = Idle
    /\ frames = Idle /\ audio = Idle

GameTick ==
    /\ ~game.panicked
    /\ \E dies \in BOOLEAN, savepoint \in BOOLEAN, touch \in {NoMask} \cup MaskColors :
          game' = tick(game, dies, savepoint, touch)
    /\ UNCHANGED <<blendVars, blitVars, triVars, tileVars, fileVars, frameVars, audioVars>>

OnKeyDown ==
    /\ ~game.panicked
    /\ \E key \in Keys : game' = on_key_down(game, key)
    /\ UNCHANGED <<blendVars, blitVars, triVars, tileVars, fileVars, frameVars, audioVars>>

OnKeyUp ==
    /\ ~game.panicked
    /\ \E key \in KeyUpSamples : game' = on_key_up(game, key)
    /\ UNCHANGED <<blendVars, blitVars, triVars, tileVars, fileVars, frameVars, audioVars>>

OnMouseButtonDown ==
    /\ ~game.panicked
    /\ \E button \in Buttons : game' = on_mouse_button_down(game, button)
    /\ UNCHANGED <<blendVars, blitVars, triVars, tileVars, fileVars, frameVars, audioVars>>

OnMouseButtonUp ==
    /\ ~game.panicked
    /\ \E button \in Buttons : game' = on_mouse_button_up(game, button)
    /\ UNCHANGED <<blendVars, blitVars, triVars, tileVars, fileVars, frameVars, audioVars>>

\* a call of the public reset_game between two ticks
GameReset ==
    /\ ~game.panicked
    /\ game' = [reset_game(game) EXCEPT !.last = "reset_game"]
    /\ UNCHANGED <<blendVars, blitVars, triVars, tileVars, fileVars, frameVars, audioVars>>

GameNext ==
    \/ GameTick \/ OnKeyDown \/ OnKeyUp \/ OnMouseButtonDown \/ OnMouseButtonUp
    \/ GameReset

SpecGame == GameInit /\ [][GameNext]_vars

\* C13: for every color mask the game can hold, draw_player passes
\* draw_on_scaled_player a color_index in 0..3, so drawing the player never
\* fails.
C13_ColorIndexSelectsPalettePair ==
    game.player_draw.op = "draw_player" =>
        /\ game.player_draw.color_index \in 0..3
        /\ ~game.player_draw.panic

\* C25: every call of Game::tick that comes back, whichever branch it
\* takes, leaves all key_pressed, key_released, mouse_pressed and
\* mouse_released flags false.
C25_InputResetEveryTick ==
    [][(GameTick /\ ~game'.panicked) =>
          /\ game'.key_pressed = {} /\ game'.key_released = {}
          /\ game'.mouse_pressed = {} /\ game'.mouse_released = {}]_vars

\* number of masks of the given color in the inventory
CountMasks(g, color) ==
    Cardinality({n \in DOMAIN g.inventory : g.inventory[n] = color})

\* C27: the active color mask is black or the color of a mask in the
\* inventory, except while the winning sequence plays, when it is yellow.
C27_ActiveMaskIsOwned ==
    IF game.is_winner THEN game.color_mask = YELLOW
    ELSE game.color_mask = BLACK \/ HasMask(game, game.color_mask)

\* C27 witness: with two masks in the inventory and a save state, a tick in
\* which a mask key put the first mask back on
C27_WitnessSwitchedBack ==
    /\ game.last = "tick" /\ ~game.is_winner /\ game.key_pressed = {}
    /\ Len(game.inventory) = 2 /\ game.save_state.some
    /\ game.save_state.color_mask = game.inventory[2]
    /\ game.color_mask = game.inventory[1]

\* C28: each of the red, green and blue mask objects is either visible in
\* the scene or exactly once in the inventory, never both and never
\* neither, and no color is in the inventory twice.
C28_MaskVisibleXorOwned ==
    \A color \in {RED, GREEN, BLUE} :
        /\ CountMasks(game, color) <= 1
        /\ (color \in game.visible) <=> (CountMasks(game, color) = 0)

\* C28 witness: reset_game with a save state holding the green and the blue
\* mask put both back into the inventory and left only red and gold visible
C28_WitnessRestoredInventory ==
    /\ game.last = "reset_game"
    /\ game.save_state.some
    /\ game.inventory = <<BLUE, GREEN>>
    /\ game.visible = {RED, YELLOW}

\* Game::tick called again and again, with no other call in between
GameTicksNext == GameTick

SpecGameTicks == GameInit /\ [][GameTicksNext]_vars /\ WF_vars(GameTick)

\* the state reset_game leaves after a win
CleanRestart ==
    /\ ~game.is_winner /\ game.inventory = <<>>
    /\ ~game.save_state.some /\ ~game.savepoint_activated
    /\ game.color_mask = BLACK

\* C29: once the golden mask is picked up, under repeated Game::tick calls
\* no tick fails, and after finitely many ticks reset_game has run: the
\* player is no winner, the inventory is empty, there is no save state, the
\* savepoint is deactivated and the color mask is black.
C29_WinningEndsInCleanRestart ==
    /\ [](game.is_winner => ~game.panicked)
    /\ (game.is_winner ~> CleanRestart)

----------------------------------------------------------------------------
(* The frame loop of main: upload buffers, fences, GPU copies *)

IN_FLIGHT_COUNT == 2

\* frames the loop runs
MaxFrames == 10

Buffers == 0..(IN_FLIGHT_COUNT - 1)

WaitSkipped(f, index) == TRUE

\* device.wait_for_fences(&[fences[index]], true, u64::MAX) returns once the
\* fence is signalled
wait_for_fences(f, index) == f.fences[index]

\* buffers a GPU copy submitted and not yet finished reads from
InFlight(f) == {f.queue[n].buffer : n \in DOMAIN f.queue}

FrameInit ==
    /\ frames = [pc |-> "wait", swap_index |-> 0, frame |-> 0,
                 fences |-> [i \in Buffers |-> TRUE],
                 queue |-> <<>>, copying |-> FALSE,
                 writing |-> {}, overlap |-> FALSE,
                 submitted |-> <<>>]
    /\ blendIn = Idle /\ blendOut = Idle
    /\ src = Idle /\ target = Idle /\ at = Idle /\ drawn = Idle
    /\ tri = Idle /\ tileMap = Idle /\ sampled = Idle /\ fileIo = Idle
    /\ game = Idle /\ audio = Idle

\* wait_for_fences and reset_fences on fences[swap_index]; acquire_next_image
CpuWaitFence ==
    /\ frames.pc = "wait" /\ frames.frame < MaxFrames
    /\ wait_for_fences(frames, frames.swap_index)
    /\ frames' = [frames EXCEPT !.fences[frames.swap_index] = FALSE, !.pc = "map"]
    /\ UNCHANGED <<blendVars, blitVars, triVars, tileVars, fileVars, gameVars, audioVars>>

\* Bitmap::new_borrowed over upload buffer swap_index; Game::tick starts
\* writing it
CpuBeginTick ==
    /\ frames.pc = "map"
    /\ frames' = [frames EXCEPT !.writing = {frames.swap_index}, !.pc = "tick",
                                !.overlap = @ \/ frames.swap_index \in InFlight(frames)]
    /\ UNCHANGED <<blendVars, blitVars, triVars, tileVars, fileVars, gameVars, audioVars>>

\* Game::tick returns
CpuEndTick ==
    /\ frames.pc = "tick"
    /\ frames' = [frames EXCEPT !.writing = {}, !.pc = "submit"]
    /\ UNCHANGED <<blendVars, blitVars, triVars, tileVars, fileVars, gameVars, audioVars>>

\* queue_submit of the copy from upload buffer swap_index with
\* fences[swap_index], queue_present, and the move to the next buffer
CpuSubmit ==
    /\ frames.pc = "submit"
    /\ frames' = [frames EXCEPT
          !.queue = Append(@, [buffer |-> frames.swap_index, frame |-> frames.frame]),
          !.submitted = Append(@, [buffer |-> frames.swap_index, frame |-> frames.frame]),
          !.swap_index = (frames.swap_index + 1) % IN_FLIGHT_COUNT,
          !.frame = @ + 1, !.pc = "wait"]
    /\ UNCHANGED <<blendVars, blitVars, triVars, tileVars, fileVars, gameVars, audioVars>>

\* the GPU starts the oldest submitted copy
GpuBeginCopy ==
    /\ frames.queue # <<>> /\ ~frames.copying
    /\ frames' = [frames EXCEPT !.copying = TRUE,
                                !.overlap = @ \/ Head(frames.queue).buffer \in frames.writing]
    /\ UNCHANGED <<blendVars, blitVars, triVars, tileVars, fileVars, gameVars, audioVars>>

\* the GPU finishes the copy and signals the fence it was submitted with
GpuEndCopy ==
    /\ frames.queue # <<>> /\ frames.copying
    /\ frames' = [frames EXCEPT !.copying = FALSE, !.queue = Tail(@),
                                !.fences[Head(frames.queue).buffer] = TRUE]
    /\ UNCHANGED <<blendVars, blitVars, triVars, tileVars, fileVars, gameVars, audioVars>>

FrameNext ==
    \/ CpuWaitFence \/ CpuBeginTick \/ CpuEndTick \/ CpuSubmit
    \/ GpuBeginCopy \/ GpuEndCopy

SpecFrame == FrameInit /\ [][FrameNext]_vars

\* C14: the CPU writes upload buffer i only after waiting on fence i, so no
\* CPU write to a buffer overlaps a GPU copy in flight from that buffer, and
\* each frame's buffer is submitted exactly once, round-robin.
C14_SingleWriterPerFrameBuffer ==
    /\ frames.writing \cap InFlight(frames) = {}
    /\ ~frames.overlap
    /\ Len(frames.submitted) = frames.frame
    /\ \A n \in DOMAIN frames.submitted :
          /\ frames.submitted[n].frame = n - 1
          /\ frames.submitted[n].buffer = (n - 1) % IN_FLIGHT_COUNT

\* C14 witness: the CPU writes one buffer while the GPU copies the other
C14_WitnessWriteDuringOtherCopy ==
    /\ frames.pc = "tick" /\ frames.writing = {1}
    /\ frames.copying /\ Head(frames.queue).buffer = 0
    /\ frames.frame >= IN_FLIGHT_COUNT + 1

\* the rows of the loaded text do not all have the same number of entries
Ragged(rows) == \E n, m \in DOMAIN rows : Len(rows[n]) # Len(rows[m])

\* C15: loading a level text whose rows differ in their number of entries
\* aborts the load; from_file never returns a grid with a padded short row.
C15_RaggedRowsAbortLoad ==
    (fileIo.step = "loaded_text" /\ Ragged(fileIo.rows)) => fileIo.loaded.panic

----------------------------------------------------------------------------
(* Scaled draws: draw_on_scaled_player, draw_background *)

key_color0 == Pack(0, 255, 220, 185)    \* 0xffdcb9
key_color1 == Pack(0, 233, 190, 147)    \* 0xe9be93

\* color_table: the pairs for start, red, green and blue
color_table ==
    << <<Pack(0, 63, 55, 46), Pack(0, 58, 47, 36)>>,
       <<Pack(0, 186, 17, 2), Pack(0, 104, 17, 2)>>,
       <<Pack(0, 9, 101, 9), Pack(0, 34, 66, 2)>>,
       <<Pack(0, 34, 17, 183), Pack(0, 34, 17, 104)>> >>

draw_on_scaled_player(self, tgt, x, y, scale_x, scale_y, palette, ub) ==
    IF ScaleLt001(scale_x) \/ ScaleLt001(scale_y)
    THEN Effect("draw_on_scaled_player", tgt, {}, {})
    ELSE IF palette >= Len(color_table)
    THEN Effect("panic", tgt, {}, {})
    ELSE
    LET color_set == color_table[palette + 1]
        du == FixedStep(self.width, scale_x)
        dv == FixedStep(self.height, scale_y)
        k == Clip(Footprint(self.width, scale_x), Footprint(self.height, scale_y),
                  x, y, tgt)
        v0 == IF dv < 0 THEN (k.sh - 1) * (-dv) ELSE k.sy * du
        u0 == IF du < 0 THEN (k.sw - 1) * (-du) ELSE k.sx * du
        dstline == k.ty * tgt.width + k.tx
        its == Iterations(k.sh, k.sw)
        SrcIndex(it) ==
            Shr(v0 + it[1] * dv, 16) * self.width + Shr(u0 + it[2] * du, 16)
        DstIndex(it) == dstline + it[1] * tgt.width + it[2]
        Color(it) == ReadUnchecked(self, SrcIndex(it), ub)
        Recolored(c) == IF Rgb(c) = key_color0 THEN color_set[1]
                        ELSE IF Rgb(c) = key_color1 THEN color_set[2]
                        ELSE Rgb(c)
        stores == {<<it[1] * k.sw + it[2], DstIndex(it), Recolored(Color(it))>> :
                      it \in {i \in its : HasAlpha(Color(i))}}
    IN  Effect("draw_on_scaled_player", tgt, stores, {SrcIndex(it) : it \in its})

draw_background(self, tgt, x, y, scale_x, scale_y, color_mask, aura_low, aura, ub) ==
    IF ScaleLt001(scale_x) \/ ScaleLt001(scale_y)
    THEN Effect("draw_background", tgt, {}, {})
    ELSE
    LET rmask == RedOf(color_mask)
        gmask == GreenOf(color_mask)
        bmask == BlueOf(color_mask)
        du == FixedStep(self.width, scale_x)
        dv == FixedStep(self.height, scale_y)
        k == Clip(Footprint(self.width, scale_x), Footprint(self.height, scale_y),
                  x, y, tgt)
        v0 == IF dv < 0 THEN (k.sh - 1) * (-dv) ELSE k.sy * du
        u0 == IF du < 0 THEN (k.sw - 1) * (-du) ELSE k.sx * du
        dstline == k.ty * tgt.width + k.tx
        its == Iterations(k.sh, k.sw)
        SrcIndex(it) ==
            Shr(v0 + it[1] * dv, 16) * self.width + Shr(u0 + it[2] * du, 16)
        DstIndex(it) == dstline + it[1] * tgt.width + it[2]
        Color(it) == ReadUnchecked(self, SrcIndex(it), ub)
        Lit(it) ==
            LET low_brightness ==
                    Shr(Low16(load_pixel(aura_low, k.tx + it[2], k.ty + it[1])), 2)
                brightness ==
                    Shr(Low16(load_pixel(aura, k.tx + it[2], k.ty + it[1])), 2)
                mute == Max(low_brightness, 15)
                c == Color(it)
            IN  Pack(0, LitChannel(RedOf(c), Max(Shr(brightness * rmask, 8), mute)),
                        LitChannel(GreenOf(c), Max(Shr(brightness * gmask, 8), mute)),
                        LitChannel(BlueOf(c), Max(Shr(brightness * bmask, 8), mute)))
        stores == {<<it[1] * k.sw + it[2], DstIndex(it), Lit(it)>> :
                      it \in {i \in its : HasAlpha(Color(i))}}
    IN  Effect("draw_background", tgt, stores, {SrcIndex(it) : it \in its})

(* Scaled draws: inputs *)

\* width of a background layer strip
WideWidth == 1024

\* a wide one-row source, and a two-pixel source in the two key colors
WideSource ==
    [width |-> WideWidth, height |-> 1, stride |-> WideWidth,
     pixels |-> [n \in 1..WideWidth |-> Pack(255, n % 256, n \div 256, 1)]]

KeySource ==
    [width |-> 2, height |-> 1, stride |-> 2,
     pixels |-> <<ColorOr(BLACK, key_color0), ColorOr(BLACK, key_color1)>>]

ScaledSources == SourceSamples \cup {WideSource, KeySource}

\* owned targets
ScaledTargets == {TargetBitmap(w, h, 0) : w \in 1..MaxDst, h \in 1..MaxDst}

ScaledCoordinates == {0 - 3, 0 - 1, 0, 1, MaxDst - 1}

\* (scale_x, scale_y): mirrored, unequal, magnified and near-zero scales
ScalePairs ==
    {<< <<-1, 1>>, <<1, 1>> >>, << <<1, 1>>, <<-1, 1>> >>, << <<-2, 1>>, <<1, 1>> >>,
     << <<1, 1>>, <<2, 1>> >>, << <<2, 1>>, <<1, 1>> >>, << <<2, 1>>, <<2, 1>> >>,
     << <<1, 1001>>, <<1, 1>> >>, << <<1, 1>>, <<-1, 2000>> >>}

ScaledInit ==
    /\ src \in ScaledSources
    /\ target \in ScaledTargets
    /\ at \in ScaledCoordinates \X ScaledCoordinates
    /\ drawn = NoCall
    /\ blendIn = Idle /\ blendOut = Idle
    /\ tri = Idle /\ tileMap = Idle /\ sampled = Idle /\ fileIo = Idle
    /\ game = Idle /\ frames = Idle /\ audio = Idle

CallScaled ==
    /\ drawn = NoCall
    /\ \E s \in ScalePairs, ub \in UbSamples :
          drawn' = [draw_on_scaled(src, target, at[1], at[2], s[1], s[2], ub)
                        EXCEPT !.args = <<s[1], s[2], ub>>]
    /\ UNCHANGED <<src, target, at, blendVars, triVars, tileVars, fileVars, gameVars, frameVars, audioVars>>

CallScaledPlayer ==
    /\ drawn = NoCall
    /\ \E s \in ScalePairs, palette \in {0, 3} :
          drawn' = [draw_on_scaled_player(src, target, at[1], at[2], s[1], s[2],
                                          palette, Transparent)
                        EXCEPT !.args = <<s[1], s[2], palette>>]
    /\ UNCHANGED <<src, target, at, blendVars, triVars, tileVars, fileVars, gameVars, frameVars, audioVars>>

CallBackground ==
    /\ drawn = NoCall
    /\ \E s \in ScalePairs, color_mask \in {BLACK, YELLOW} :
          drawn' = [draw_background(src, target, at[1], at[2], s[1], s[2], color_mask,
                                    AuraTable(150), AuraTable(384), Transparent)
                        EXCEPT !.args = <<s[1], s[2], color_mask>>]
    /\ UNCHANGED <<src, target, at, blendVars, triVars, tileVars, fileVars, gameVars, frameVars, audioVars>>

ScaledNext == CallScaled \/ CallScaledPlayer \/ CallBackground

SpecScaled == ScaledInit /\ [][ScaledNext]_vars

\* the source mirrored left to right, and top to bottom
MirrorH(bm) ==
    [bm EXCEPT !.pixels =
        [n \in 1..(bm.width * bm.height) |->
            bm.pixels[(bm.width - 1 - ((n - 1) % bm.width))
                      + ((n - 1) \div bm.width) * bm.width + 1]]]

MirrorV(bm) ==
    [bm EXCEPT !.pixels =
        [n \in 1..(bm.width * bm.height) |->
            bm.pixels[((n - 1) % bm.width)
                      + (bm.height - 1 - ((n - 1) \div bm.width)) * bm.width + 1]]]

Negated(scale) == <<0 - scale[1], scale[2]>>

\* C16: the destination drawn by draw_on_scaled with scale (-s, t) equals the
\* one drawn from the horizontally mirrored source with scale (s, t) at the
\* same position, clipped or not; likewise for a negative vertical scale.
C16_NegativeScaleMirrors ==
    drawn.op = "draw_on_scaled" =>
        LET scale_x == drawn.args[1]
            scale_y == drawn.args[2]
        IN  /\ (scale_x[1] < 0 /\ scale_y[1] > 0) =>
                  drawn.pixels =
                      draw_on_scaled(MirrorH(src), target, at[1], at[2],
                                     Negated(scale_x), scale_y, drawn.args[3]).pixels
            /\ (scale_x[1] > 0 /\ scale_y[1] < 0) =>
                  drawn.pixels =
                      draw_on_scaled(MirrorV(src), target, at[1], at[2],
                                     scale_x, Negated(scale_y), drawn.args[3]).pixels


\* C17: with |scale_x| < 0.001 or |scale_y| < 0.001, draw_on_scaled,
\* draw_on_scaled_player and draw_background leave every destination pixel
\* unchanged.
C17_NearZeroScaleIsNoOp ==
    (/\ drawn.op \in {"draw_on_scaled", "draw_on_scaled_player", "draw_background"}
     /\ (ScaleNear0(drawn.args[1]) \/ ScaleNear0(drawn.args[2]))) =>
        drawn.pixels = target.pixels /\ drawn.writes = {}

\* C17 witness: the wide source, whose footprint at scale 1/1001 is one pixel,
\* given to draw_background at the target's origin
C17_WitnessWideSourceNearZero ==
    /\ drawn.op = "draw_background"
    /\ src = WideSource /\ drawn.args[1] = <<1, 1001>>
    /\ at = <<0, 0>> /\ Footprint(src.width, drawn.args[1]) = 1
    /\ drawn.pixels = target.pixels

\* an owned destination that holds the whole footprint of a small source
\* drawn at (x + 3, y + 3)
BigSize == 2 * MaxSrc + MaxDst + 3

\* C20: for positive scales, each in-bounds destination pixel draw_on_scaled
\* writes when the footprint is clipped has the value it gets when the same
\* draw is made into a destination that holds the whole footprint.
C20_ClippingKeepsSamples ==
    (/\ drawn.op = "draw_on_scaled"
     /\ src.width <= MaxSrc
     /\ drawn.args[1][1] > 0 /\ drawn.args[2][1] > 0
     /\ ~ScaleNear0(drawn.args[1]) /\ ~ScaleNear0(drawn.args[2])) =>
        LET whole == draw_on_scaled(src, new(BigSize, BigSize), at[1] + 3, at[2] + 3,
                                    drawn.args[1], drawn.args[2], drawn.args[3])
        IN  \A i \in drawn.writes :
               drawn.pixels[i + 1] =
                   PixelAt(whole.pixels, BigSize,
                           (i % target.width) + 3, (i \div target.width) + 3)

----------------------------------------------------------------------------
(* Sound effects: the game thread sends (SoundTypes, bool) messages over a *)
(* channel, the audio stream callback drains it and then fills its frames. *)

MaxQueue == 3    \* messages the channel holds at most before a callback

Sfx(sound, play) == [sound |-> sound, play |-> play]

\* the sfx messages one Game::tick sends: a jump, and a footstep start or
\* stop when is_player_walking differs from was_player_walking
TickMessages(a, jumps, is_player_walking) ==
    (IF jumps THEN <<Sfx("JumpSound", TRUE)>> ELSE <<>>)
    \o (IF is_player_walking /\ ~a.was_player_walking
        THEN <<Sfx("FootstepSound", TRUE)>>
        ELSE IF a.was_player_walking /\ ~is_player_walking
        THEN <<Sfx("FootstepSound", FALSE)>>
        ELSE <<>>)

\* the latest footstep message among msgs, or latest if there is none
RECURSIVE LatestFootstep(_, _)
LatestFootstep(msgs, latest) ==
    IF msgs = <<>> THEN latest
    ELSE LatestFootstep(Tail(msgs),
                        IF Head(msgs).sound = "FootstepSound"
                        THEN [some |-> TRUE, play |-> Head(msgs).play]
                        ELSE latest)

Send(a, msgs) ==
    [a EXCEPT !.queue = @ \o msgs, !.latest = LatestFootstep(msgs, @)]

\* one iteration of `while let Ok((sfx_event, play)) = sfx_recv.try_recv()`
Recv(a, m) ==
    IF m.sound = "FootstepSound"
    THEN IF m.play THEN [a EXCEPT !.start_footstep_sound = TRUE]
         ELSE [a EXCEPT !.stop_footstep_sound = TRUE]
    ELSE IF m.sound = "JumpSound" THEN [a EXCEPT !.start_jump_sound = m.play]
    ELSE a

\* the frame loop of the callback (512 frames): the first frame consumes the
\* start and stop flags, the start flags first
Frames(a) ==
    LET a1 == IF a.start_jump_sound
              THEN [a EXCEPT !.start_jump_sound = FALSE, !.play_jump_sound = TRUE]
              ELSE a
        a2 == IF a1.start_footstep_sound
              THEN [a1 EXCEPT !.start_footstep_sound = FALSE,
                              !.play_footstep_sound = TRUE]
              ELSE a1
    IN  IF a2.stop_footstep_sound
        THEN [a2 EXCEPT !.stop_footstep_sound = FALSE, !.play_footstep_sound = FALSE]
        ELSE a2

AudioInit ==
    /\ audio = [queue |-> <<>>, was_player_walking |-> FALSE,
                latest |-> [some |-> FALSE, play |-> FALSE],
                start_jump_sound |-> FALSE, play_jump_sound |-> FALSE,
                start_footstep_sound |-> FALSE, stop_footstep_sound |-> FALSE,
                play_footstep_sound |-> FALSE, step |-> "new"]
    /\ blendIn = Idle /\ blendOut = Idle
    /\ src = Idle /\ target = Idle /\ at = Idle /\ drawn = Idle
    /\ tri = Idle /\ tileMap = Idle /\ sampled = Idle /\ fileIo = Idle
    /\ game = Idle /\ frames = Idle

\* game thread: one Game::tick, as far as the sfx channel goes
GameSendSfx ==
    /\ \E jumps \in BOOLEAN, is_player_walking \in BOOLEAN :
          LET msgs == TickMessages(audio, jumps, is_player_walking)
          IN  /\ Len(audio.queue) + Len(msgs) <= MaxQueue
              /\ audio' = [Send(audio, msgs) EXCEPT
                              !.was_player_walking = is_player_walking,
                              !.step = IF msgs = <<>> THEN @ ELSE "sent"]
    /\ UNCHANGED <<blendVars, blitVars, triVars, tileVars, fileVars, gameVars, frameVars>>

\* audio thread: try_recv returns a message
AudioRecv ==
    /\ audio.queue # <<>>
    /\ audio' = [Recv(audio, Head(audio.queue)) EXCEPT
                    !.queue = Tail(audio.queue), !.step = "draining"]
    /\ UNCHANGED <<blendVars, blitVars, triVars, tileVars, fileVars, gameVars, frameVars>>

\* audio thread: try_recv finds the channel empty, the callback fills its
\* frames and returns
AudioFrames ==
    /\ audio.queue = <<>>
    /\ audio' = [Frames(audio) EXCEPT !.step = "done"]
    /\ UNCHANGED <<blendVars, blitVars, triVars, tileVars, fileVars, gameVars, frameVars>>

AudioNext == GameSendSfx \/ AudioRecv \/ AudioFrames

SpecAudio == AudioInit /\ [][AudioNext]_vars

\* C30: after a callback has processed all pending messages, the footstep
\* playback state equals the flag of the most recently sent footstep
\* message.
C30_FootstepFollowsLatestMessage ==
    (audio.step = "done" /\ audio.queue = <<>> /\ audio.latest.some) =>
        audio.play_footstep_sound = audio.latest.play

====
